---- MODULE Spec2Model ----
(***************************************************************************)
(* Provisioning, invocation and result decoding of the api-linter          *)
(* extension: the output decoder (utils/linterUtils), the process runner   *)
(* (linterProvider.runLinter) and the binary provisioner                   *)
(* (download/apiLinterDownloader, binaryManager).                          *)
(***************************************************************************)
EXTENDS Integers, Sequences, FiniteSets, TLC

(***************************************************************************)
(* Text.  A string is a sequence of characters.  A character is a record   *)
(* with a kind; the kinds are the characters "[", "]", ",", "{", "}", the  *)
(* whitespace character "ws", a character "x" of non-JSON text, the key    *)
(* "problems" (the text "problems": of a result group), the literal        *)
(* "null", and the text of one problem object ("problem", with its four    *)
(* reported coordinates, and "problemNoLoc", a problem object that lacks   *)
(* its location).  A problem object's text holds no bracket.               *)
(***************************************************************************)
Ch(c) == [kind |-> c, sl |-> 0, sc |-> 0, el |-> 0, ec |-> 0]

Prob(a, b, c, d) == [kind |-> "problem", sl |-> a, sc |-> b, el |-> c, ec |-> d]

ProbNoLoc == Ch("problemNoLoc")

\* bounds of the decoder's inputs
MaxGroups == 2
MaxProblems == 2
MaxNoise == 2

\* reported (1-indexed, possibly 0) coordinates of the problems of the inputs:
\* each coordinate is 0 in one problem and positive in the other
Problems == { Prob(0, 3, 2, 1), Prob(1, 0, 0, 4) }

SeqsUpTo(S, n) == UNION { [1..k -> S] : k \in 0..n }

RECURSIVE Join(_)
\* the texts of ss separated by commas
Join(ss) ==
    IF ss = <<>> THEN <<>>
    ELSE IF Len(ss) = 1 THEN Head(ss)
    ELSE Head(ss) \o <<Ch(",")>> \o Join(Tail(ss))

(***************************************************************************)
(* The tool's output: a JSON array of result groups.  A group of the       *)
(* inputs is the literal null, an object without a problems key, or an     *)
(* object whose problems key holds an array of problem objects.            *)
(***************************************************************************)
NullGroup == [kind |-> "null", has |-> FALSE, problems |-> <<>>]

Group(has, ps) == [kind |-> "obj", has |-> has, problems |-> ps]

GroupsOver(P, n) ==
    {NullGroup, Group(FALSE, <<>>)} \cup { Group(TRUE, ps) : ps \in SeqsUpTo(P, n) }

GroupText(g) ==
    IF g.kind = "null" THEN <<Ch("null")>>
    ELSE IF ~g.has THEN <<Ch("{"), Ch("}")>>
    ELSE <<Ch("{"), Ch("problems"), Ch("[")>>
         \o Join([i \in 1..Len(g.problems) |-> <<g.problems[i]>>])
         \o <<Ch("]"), Ch("}")>>

\* the text the tool prints for a payload (JSON.stringify of the array)
PayloadText(groups) ==
    <<Ch("[")>> \o Join([i \in 1..Len(groups) |-> GroupText(groups[i])]) \o <<Ch("]")>>

IsValidPayload(groups) ==
    \A i \in 1..Len(groups) :
        /\ groups[i].kind = "obj"
        /\ \A j \in 1..Len(groups[i].problems) : groups[i].problems[j].kind = "problem"

(***************************************************************************)
(* String operations of the decoder.                                       *)
(***************************************************************************)
IsWs(c) == c.kind = "ws"

RECURSIVE trimStart(_)
trimStart(s) == IF s # <<>> /\ IsWs(Head(s)) THEN trimStart(Tail(s)) ELSE s

RECURSIVE trimEnd(_)
trimEnd(s) ==
    IF s # <<>> /\ IsWs(s[Len(s)]) THEN trimEnd(SubSeq(s, 1, Len(s) - 1)) ELSE s

trim(s) == trimEnd(trimStart(s))

\* 0-based index of the first character of kind c, -1 when there is none
indexOf(s, c) ==
    IF \E i \in 1..Len(s) : s[i].kind = c
    THEN (CHOOSE i \in 1..Len(s) :
             s[i].kind = c /\ \A j \in 1..(i - 1) : s[j].kind # c) - 1
    ELSE -1

\* 0-based index of the last character of kind c, -1 when there is none
lastIndexOf(s, c) ==
    IF \E i \in 1..Len(s) : s[i].kind = c
    THEN (CHOOSE i \in 1..Len(s) :
             s[i].kind = c /\ \A j \in (i + 1)..Len(s) : s[j].kind # c) - 1
    ELSE -1

\* s.substring(from, to): the characters at the 0-based indexes from..to-1
substring(s, from, to) == SubSeq(s, from + 1, to)

(***************************************************************************)
(* JSON.parse over the text: a recursive-descent parser.  The result is    *)
(* [ok, val, next]; ok = FALSE stands for the SyntaxError JSON.parse       *)
(* throws.  Values: [kind |-> "arr", items], [kind |-> "obj", has,         *)
(* problems (a value)], the null literal, and problem objects.             *)
(***************************************************************************)
ParseFail == [ok |-> FALSE, val |-> Ch("null"), next |-> 0]

ParseOk(v, n) == [ok |-> TRUE, val |-> v, next |-> n]

RECURSIVE SkipWs(_, _)
SkipWs(s, i) == IF i <= Len(s) /\ IsWs(s[i]) THEN SkipWs(s, i + 1) ELSE i

KindAt(s, i) == IF i <= Len(s) THEN s[i].kind ELSE "eof"

RECURSIVE ParseValue(_, _)
RECURSIVE ParseElements(_, _, _)

\* the elements of an array after its "[" or after a ",", up to its "]"
ParseElements(s, i, acc) ==
    LET r == ParseValue(s, i) IN
    IF ~r.ok THEN ParseFail
    ELSE LET j == SkipWs(s, r.next)
             items == Append(acc, r.val)
         IN  IF KindAt(s, j) = "," THEN ParseElements(s, j + 1, items)
             ELSE IF KindAt(s, j) = "]"
                  THEN ParseOk([kind |-> "arr", items |-> items], j + 1)
                  ELSE ParseFail

ParseValue(s, i0) ==
    LET i == SkipWs(s, i0)
        k == KindAt(s, i)
    IN  IF k \in {"null", "problem", "problemNoLoc"} THEN ParseOk(s[i], i + 1)
        ELSE IF k = "["
        THEN LET j == SkipWs(s, i + 1) IN
             IF KindAt(s, j) = "]"
             THEN ParseOk([kind |-> "arr", items |-> <<>>], j + 1)
             ELSE ParseElements(s, i + 1, <<>>)
        ELSE IF k = "{"
        THEN LET j == SkipWs(s, i + 1) IN
             IF KindAt(s, j) = "}"
             THEN ParseOk([kind |-> "obj", has |-> FALSE, problems |-> Ch("null")], j + 1)
             ELSE IF KindAt(s, j) = "problems"
             THEN LET r == ParseValue(s, j + 1) IN
                  IF r.ok /\ KindAt(s, SkipWs(s, r.next)) = "}"
                  THEN ParseOk([kind |-> "obj", has |-> TRUE, problems |-> r.val],
                               SkipWs(s, r.next) + 1)
                  ELSE ParseFail
             ELSE ParseFail
        ELSE ParseFail

\* JSON.parse(text): one value, with only whitespace around it
JSONparse(s) ==
    LET r == ParseValue(s, 1) IN
    IF r.ok /\ SkipWs(s, r.next) > Len(s) THEN r ELSE ParseFail

(***************************************************************************)
(* createDiagnosticFromProblem and the two parseLinterOutput variants.     *)
(***************************************************************************)
Max0(x) == IF x > 0 THEN x ELSE 0

\* reading problem.location.start_position of anything but a problem object
\* that carries its location throws a TypeError
createDiagnosticThrows(problem) == problem.kind # "problem"

\* a paired clamp: a line reported as 0 also zeroes the column
createDiagnosticFromProblem_PairedClamp(problem) ==
    [startLine |-> Max0(problem.sl - 1),
     startChar |-> IF problem.sl < 1 THEN 0 ELSE Max0(problem.sc - 1),
     endLine |-> Max0(problem.el - 1),
     endChar |-> IF problem.el < 1 THEN 0 ELSE Max0(problem.ec - 1)]

createDiagnosticFromProblem(problem) ==
    [startLine |-> Max0(problem.sl - 1), startChar |-> Max0(problem.sc - 1),
     endLine |-> Max0(problem.el - 1), endChar |-> Max0(problem.ec - 1)]

RECURSIVE pushProblems(_, _)
\* result.problems.forEach(problem => diagnostics.push(...)); the diagnostics
\* pushed before an exception stay in the array
pushProblems(items, diagnostics) ==
    IF items = <<>> THEN [diagnostics |-> diagnostics, threw |-> FALSE]
    ELSE IF createDiagnosticThrows(Head(items))
    THEN [diagnostics |-> diagnostics, threw |-> TRUE]
    ELSE pushProblems(Tail(items),
                      Append(diagnostics, createDiagnosticFromProblem(Head(items))))

RECURSIVE forEachResult(_, _)
\* results.forEach(result => ...)
forEachResult(results, diagnostics) ==
    IF results = <<>> THEN [diagnostics |-> diagnostics, threw |-> FALSE]
    ELSE LET result == Head(results) IN
         IF result.kind = "null"
         THEN [diagnostics |-> diagnostics, threw |-> TRUE]      \* null.problems
         ELSE IF result.kind # "obj" \/ ~result.has \/ result.problems.kind = "null"
         THEN forEachResult(Tail(results), diagnostics)          \* !result.problems
         ELSE IF result.problems.kind # "arr"
         THEN [diagnostics |-> diagnostics, threw |-> TRUE]      \* no forEach
         ELSE LET r == pushProblems(result.problems.items, diagnostics) IN
              IF r.threw THEN r ELSE forEachResult(Tail(results), r.diagnostics)

\* JSON.parse followed by the forEach, inside the try block
decodeResults(text) ==
    LET parsed == JSONparse(text) IN
    IF ~parsed.ok \/ parsed.val.kind # "arr"
    THEN [diagnostics |-> <<>>, threw |-> TRUE]
    ELSE forEachResult(parsed.val.items, <<>>)

\* the catch block logs the error and falls through to `return diagnostics`
catchDecode(r) ==
    [diagnostics |-> r.diagnostics, raised |-> FALSE, logged |-> r.threw]

Decoded(ds, logged) == [diagnostics |-> ds, raised |-> FALSE, logged |-> logged]

\* no guard and no try/catch around JSON.parse
parseLinterOutput_Unguarded(output) ==
    LET r == decodeResults(trim(output)) IN
    [diagnostics |-> r.diagnostics, raised |-> r.threw, logged |-> FALSE]

\* parseLinterOutput with the extraction of the bracketed substring
parseLinterOutput(output) ==
    IF output = <<>> \/ trim(output) = <<>> THEN Decoded(<<>>, FALSE)
    ELSE LET jsonOutput == trim(output)
             jsonStart == indexOf(jsonOutput, "[")
             jsonEnd == lastIndexOf(jsonOutput, "]")
         IN  IF jsonStart = -1 THEN Decoded(<<>>, TRUE)
             ELSE IF jsonEnd = -1 \/ jsonEnd < jsonStart THEN Decoded(<<>>, TRUE)
             ELSE catchDecode(decodeResults(substring(jsonOutput, jsonStart, jsonEnd + 1)))

\* parseLinterOutput that hands the whole output to JSON.parse
parseLinterOutputPlain(output) ==
    IF output = <<>> \/ trim(output) = <<>> THEN Decoded(<<>>, FALSE)
    ELSE catchDecode(decodeResults(output))

(***************************************************************************)
(* State.  The decoder: the text before the payload, the payload the tool  *)
(* printed (or none), the text after it, and the decoder's outcome.  The   *)
(* runner: the promise around the spawned process.  The provisioner: the   *)
(* asset under provisioning ("executable", "corpus" or "none"), the clock, *)
(* the configuration, the managed directory, the calls of ensureBinary and *)
(* the last declined update (when its timestamp was written, the version   *)
(* read before the prompt and the version written after it) and the        *)
(* latest time of a check that a metadata write has recorded.              *)
(* The corpus: its directory, archive, temporary directory, metadata file  *)
(* and the call of ensureGoogleapis.  The editor: the lint requests for a  *)
(* document, the version of the file on disk and the diagnostics shown;    *)
(* the hover requests, the guidance cache and the fetches issued per rule  *)
(* page; the input and the result of buildLinterArgs.                      *)
(***************************************************************************)
VARIABLES noiseBefore, payload, noiseAfter, decodeOut,
          runPc, runPath, runDecoder, procOut, stdoutBuf, runErrno, closeCode, runResult,
          asset, now,
          variant, customPath, gapiDir, binary, archive, metaFile, latest, call, declined,
          maxChecked,
          corpusDir, corpusZip, corpusTemp, corpusMeta, corpusCall,
          lintReq, fileVersion, displayed, outage, shown,
          listeners, typeNow, armed, handle, nextTimer, running, isDirty, changes, lintStarts,
          found, wsPc, wsIndex, attempts, outcomes,
          server, dlUrl, dlPc, dlFile,
          hover, guidanceCache, fetches,
          argIn, argOut

decodeVars == <<noiseBefore, payload, noiseAfter, decodeOut>>

runVars ==
    <<runPc, runPath, runDecoder, procOut, stdoutBuf, runErrno, closeCode, runResult>>

\* which asset is provisioned, and the clock
clockVars == <<asset, now>>

provVars ==
    <<variant, customPath, gapiDir, binary, archive, metaFile, latest, call, declined,
      maxChecked>>

corpusVars == <<corpusDir, corpusZip, corpusTemp, corpusMeta, corpusCall>>

lintVars == <<lintReq, fileVersion, displayed, outage, shown>>

hoverVars == <<hover, guidanceCache, fetches>>

argVars == <<argIn, argOut>>

typeVars ==
    <<listeners, typeNow, armed, handle, nextTimer, running, isDirty, changes, lintStarts>>

workspaceVars == <<found, wsPc, wsIndex, attempts, outcomes>>

downloadVars == <<server, dlUrl, dlPc, dlFile>>

extensionVars == <<typeVars, workspaceVars, downloadVars>>

editorVars == <<lintVars, hoverVars, argVars, extensionVars>>

vars == <<decodeVars, runVars, clockVars, provVars, corpusVars, editorVars>>

(***************************************************************************)
(* Inputs and steps of the decoder.                                        *)
(***************************************************************************)
NoiseChars == {Ch("x"), Ch("ws"), Ch("["), Ch("]")}

Noise == SeqsUpTo(NoiseChars, MaxNoise)

NoPayload == [present |-> FALSE, groups |-> <<>>]

Payload(gs) == [present |-> TRUE, groups |-> gs]

Payloads ==
    { Payload(gs) : gs \in SeqsUpTo(GroupsOver(Problems \cup {ProbNoLoc}, MaxProblems),
                                      MaxGroups) }

NoisyPayloads ==
    { NoPayload,
      Payload(<<>>),
      Payload(<<Group(TRUE, <<>>)>>),
      Payload(<<Group(TRUE, <<Prob(0, 3, 2, 1)>>)>>),
      Payload(<<Group(FALSE, <<>>), Group(TRUE, <<Prob(1, 0, 0, 4), Prob(0, 3, 2, 1)>>)>>),
      Payload(<<Group(TRUE, <<Prob(1, 0, 0, 4)>>), Group(TRUE, <<Prob(0, 3, 2, 1)>>)>>) }

bodyText == IF payload.present THEN PayloadText(payload.groups) ELSE <<>>

stdoutText == noiseBefore \o bodyText \o noiseAfter

NotDecoded == [by |-> "none", diagnostics |-> <<>>, raised |-> FALSE, logged |-> FALSE]

DecodedBy(name, r) ==
    [by |-> name, diagnostics |-> r.diagnostics, raised |-> r.raised, logged |-> r.logged]

\* the tool printed exactly a JSON array
InitDecode ==
    /\ payload \in Payloads
    /\ noiseBefore = <<>>
    /\ noiseAfter = <<>>
    /\ decodeOut = NotDecoded

\* the tool printed other text before and after the payload, or no payload
InitNoise ==
    /\ payload \in NoisyPayloads
    /\ noiseBefore \in Noise
    /\ noiseAfter \in Noise
    /\ decodeOut = NotDecoded

Decode ==
    /\ decodeOut.by = "none"
    /\ decodeOut' = DecodedBy("extract", parseLinterOutput(stdoutText))
    /\ UNCHANGED <<noiseBefore, payload, noiseAfter>>
    /\ UNCHANGED <<runVars, clockVars, provVars, corpusVars, editorVars>>

DecodePlain ==
    /\ decodeOut.by = "none"
    /\ decodeOut' = DecodedBy("plain", parseLinterOutputPlain(stdoutText))
    /\ UNCHANGED <<noiseBefore, payload, noiseAfter>>
    /\ UNCHANGED <<runVars, clockVars, provVars, corpusVars, editorVars>>

DecoderIdle ==
    /\ payload = NoPayload
    /\ noiseBefore = <<>>
    /\ noiseAfter = <<>>
    /\ decodeOut = NotDecoded

(***************************************************************************)
(* The process runner, runLinter: the promise around the spawned process.  *)
(* The runner buffers the chunks of stdout; the 'error' and the 'close'    *)
(* handlers settle the promise, and a promise settles once: resolve and    *)
(* reject of a settled promise change nothing.                             *)
(***************************************************************************)
BINARY_PATH == "~/.gapi/api-linter"

CustomPaths == {"/opt/tools/api-linter"}

\* error codes of the 'error' event: path missing, path not executable,
\* another failure of the operating system
Errnos == {"ENOENT", "EACCES", "EAGAIN"}

\* exit statuses of the 'close' event; null is termination without a code
MaxExitCode == 3

ExitCode(n) == [null |-> FALSE, n |-> n]

NullCode == [null |-> TRUE, n |-> 0]

\* code === n
IsCode(code, n) == ~code.null /\ code.n = n

CloseCodes == { ExitCode(n) : n \in 0..MaxExitCode } \cup {NullCode}

\* what the tool may print on stdout
RunOutputs ==
    { <<>>,
      PayloadText(<<>>),
      PayloadText(<<Group(TRUE, <<Prob(3, 0, 4, 1)>>)>>),
      PayloadText(<<Group(TRUE, <<>>), Group(TRUE, <<Prob(0, 3, 2, 5), Prob(1, 1, 1, 1)>>)>>),
      <<Ch("x"), Ch("ws")>> \o PayloadText(<<Group(TRUE, <<Prob(2, 2, 0, 3)>>)>>),
      <<Ch("x"), Ch("x")>> }

Pending == [state |-> "pending", diagnostics |-> <<>>, error |-> "none", path |-> "", code |-> NullCode]

Resolved(ds) ==
    [state |-> "resolved", diagnostics |-> ds, error |-> "none", path |-> "", code |-> NullCode]

\* new Error(`api-linter binary not found at: ${binaryPath}. ...`)
BinaryNotFoundError(path) ==
    [state |-> "rejected", diagnostics |-> <<>>, error |-> "binaryNotFound", path |-> path,
     code |-> NullCode]

\* the error object of the 'error' event, as the operating system made it
SpawnError(errno) ==
    [state |-> "rejected", diagnostics |-> <<>>, error |-> errno, path |-> "", code |-> NullCode]

\* new Error(`api-linter exited with code ${code}`)
ExitError(code) ==
    [state |-> "rejected", diagnostics |-> <<>>, error |-> "exited", path |-> "", code |-> code]

\* a result that every resolve(...) and reject(...) overwrites
settle_LastWins(result, outcome) ==
    outcome

\* resolve(...) and reject(...) of the promise
settle(result, outcome) ==
    IF result.state = "pending" THEN outcome ELSE result

\* process.on('error', ...)
onError(path, errno) ==
    IF errno = "ENOENT" THEN BinaryNotFoundError(path) ELSE SpawnError(errno)

\* the parseLinterOutput that utils/linterUtils exports to the runner
Decoders == {"extract", "plain"}

importedParseLinterOutput(decoder, stdout) ==
    IF decoder = "plain" THEN parseLinterOutputPlain(stdout) ELSE parseLinterOutput(stdout)

\* only exit code 0 counts as success
onClose_ZeroOnly(decoder, code, stdout) ==
    IF ~IsCode(code, 0)
    THEN ExitError(code)
    ELSE LET r == importedParseLinterOutput(decoder, stdout) IN
         IF r.raised THEN Resolved(<<>>) ELSE Resolved(r.diagnostics)

\* process.on('close', ...)
onClose(decoder, code, stdout) ==
    IF ~IsCode(code, 0) /\ ~IsCode(code, 1)
    THEN ExitError(code)
    ELSE LET r == importedParseLinterOutput(decoder, stdout) IN
         IF r.raised THEN Resolved(<<>>) ELSE Resolved(r.diagnostics)

RunnerIdle ==
    /\ runPc = "idle"
    /\ runPath = ""
    /\ runDecoder = "plain"
    /\ procOut = <<>>
    /\ stdoutBuf = <<>>
    /\ runErrno = "none"
    /\ closeCode = NullCode
    /\ runResult = Pending

\* cp.spawn(binaryPath, args, { cwd: workingDir })
Spawn ==
    /\ runPc \in {"idle", "closed"}
    /\ \E path \in {BINARY_PATH} \cup CustomPaths, out \in RunOutputs :
          /\ runPath' = path
          /\ procOut' = out
    /\ runDecoder' \in Decoders
    /\ runPc' = "running"
    /\ stdoutBuf' = <<>>
    /\ runErrno' = "none"
    /\ closeCode' = NullCode
    /\ runResult' = Pending
    /\ UNCHANGED <<decodeVars, clockVars, provVars, corpusVars, editorVars>>

\* process.stdout.on('data', ...): stdout += data
OnData ==
    /\ runPc = "running"
    /\ \E k \in 1..Len(procOut) :
          /\ stdoutBuf' = stdoutBuf \o SubSeq(procOut, 1, k)
          /\ procOut' = SubSeq(procOut, k + 1, Len(procOut))
    /\ UNCHANGED <<runPc, runPath, runDecoder, runErrno, closeCode, runResult>>
    /\ UNCHANGED <<decodeVars, clockVars, provVars, corpusVars, editorVars>>

\* the 'error' event: the process could not be spawned, or another failure
\* of the process; runErrno keeps the code of the first 'error' event
OnError ==
    /\ runPc = "running"
    /\ \E errno \in Errnos :
          /\ runResult' = settle(runResult, onError(runPath, errno))
          /\ runErrno' = IF runErrno = "none" THEN errno ELSE runErrno
    /\ UNCHANGED <<runPc, runPath, runDecoder, procOut, stdoutBuf, closeCode>>
    /\ UNCHANGED <<decodeVars, clockVars, provVars, corpusVars, editorVars>>

\* the 'close' event: the process ended and its streams are closed
OnClose ==
    /\ runPc = "running"
    /\ \E code \in CloseCodes :
          /\ closeCode' = code
          /\ runResult' = settle(runResult, onClose(runDecoder, code, stdoutBuf))
    /\ runPc' = "closed"
    /\ UNCHANGED <<runPath, runDecoder, procOut, stdoutBuf, runErrno>>
    /\ UNCHANGED <<decodeVars, clockVars, provVars, corpusVars, editorVars>>

(***************************************************************************)
(* The provisioner of the executable: ensureBinary, in its three variants  *)
(* (ApiLinterDownloader; the BinaryManager that updates without asking;    *)
(* the BinaryManager that asks).  The managed directory holds the          *)
(* executable, the downloaded archive and the metadata file.  Every await  *)
(* on the file system, the network or the user is a step of a call, and    *)
(* the steps of concurrent calls interleave.  Time is counted in seconds.  *)
(***************************************************************************)
Variants == {"downloader", "managerAuto", "managerAsk"}

Calls == {"c1", "c2"}

Versions == {"v1", "v2"}

\* ApiLinterDownloader.shouldCheckForUpdate: oneDayInMs
oneDay == 24 * 60 * 60

\* BinaryManager: CHECK_INTERVAL_MS
CHECK_INTERVAL == 10 * 24 * 60 * 60

CheckInterval(v) == IF v = "downloader" THEN oneDay ELSE CHECK_INTERVAL

\* bounds of the clock: the times around the multiples of the interval
MaxIntervals == 2
MaxSlack == 1

TimePoints(interval) ==
    { t \in { k * interval + j : k \in 0..MaxIntervals, j \in (0 - MaxSlack)..MaxSlack } :
        t >= 0 }

\* the metadata file: missing, unparsable (also while a write is under way),
\* or a JSON object; hasTime = FALSE is an object without lastChecked
MetaMissing == [kind |-> "missing", version |-> "undefined", lastChecked |-> 0, hasTime |-> FALSE]

MetaCorrupt == [kind |-> "corrupt", version |-> "undefined", lastChecked |-> 0, hasTime |-> FALSE]

MetaEmptyObject == [kind |-> "json", version |-> "undefined", lastChecked |-> 0, hasTime |-> FALSE]

MetaRecord(v, t) == [kind |-> "json", version |-> v, lastChecked |-> t, hasTime |-> TRUE]

MetaReadable(m) == m.kind = "json"

\* data.lastChecked of a file that parses and holds it; none is -1
RecordedLastChecked(m) ==
    IF MetaReadable(m) /\ m.hasTime THEN m.lastChecked ELSE -1

\* the comparison with >= in place of >
shouldCheckForUpdate_AtInterval(m, t, interval) ==
    IF ~MetaReadable(m) THEN TRUE
    ELSE IF ~m.hasTime THEN FALSE
    ELSE (t - m.lastChecked) >= interval

\* shouldCheckForUpdate: readFile or JSON.parse throwing is caught and means
\* due; now - undefined is NaN, and NaN > interval is false
shouldCheckForUpdate(m, t, interval) ==
    IF ~MetaReadable(m) THEN TRUE
    ELSE IF ~m.hasTime THEN FALSE
    ELSE (t - m.lastChecked) > interval

\* getCustomBinaryPath
getCustomBinaryPath(configured) ==
    IF configured # "" /\ configured # "api-linter" THEN configured ELSE ""

\* ApiLinterDownloader.getCurrentVersion
getCurrentVersion(m) == IF MetaReadable(m) THEN m.version ELSE "unknown"

\* checkAndUpdate's test for a new version
\* (ApiLinterDownloader: latestVersion !== currentVersion;
\*  BinaryManager: !currentMetadata || currentMetadata.version !== latestVersion)
versionDiffers(v, m, latestVersion) ==
    IF v = "downloader" THEN latestVersion # getCurrentVersion(m)
    ELSE ~MetaReadable(m) \/ m.version # latestVersion

\* a checkAndUpdate that records the latest version whatever the answer
checkedVersion_Latest(v, current, latestVersion) ==
    latestVersion

\* the version checkAndUpdate writes when it does not download
\* (ApiLinterDownloader: currentVersion; BinaryManager asking, declined:
\*  currentMetadata?.version || latestVersion; up to date: latestVersion)
checkedVersion(v, current, latestVersion) ==
    IF v = "downloader" THEN current
    ELSE IF current \in {"unknown", "undefined"} THEN latestVersion ELSE current

NewCall ==
    [pc |-> "idle", result |-> "", fromCheck |-> FALSE, sawAbsent |-> FALSE,
     due |-> "unset", latestVersion |-> "undefined", currentVersion |-> "undefined",
     version |-> "undefined", answer |-> "none", stamp |-> 0, unlink |-> "untried",
     net |-> 0, downloads |-> 0, extracts |-> 0, prompts |-> 0, metaWrites |-> 0]

\* the locals of a call end with the call
Ended(r) ==
    [r EXCEPT !.latestVersion = "undefined", !.currentVersion = "undefined",
              !.version = "undefined", !.stamp = 0]

Returned(r, path) == [Ended(r) EXCEPT !.pc = "done", !.result = path]

\* a checkAndUpdate without the catch: every exception rejects ensureBinary
Thrown_Rejects(r) ==
    [Ended(r) EXCEPT !.pc = "failed"]

\* an exception: checkAndUpdate catches and logs it and ensureBinary returns
\* the install path; outside checkAndUpdate it rejects ensureBinary
Thrown(r) ==
    IF r.fromCheck THEN Returned(r, BINARY_PATH) ELSE [Ended(r) EXCEPT !.pc = "failed"]

NeverDeclined == [at |-> -1, was |-> "undefined", version |-> "undefined"]

ProvisionerIdle ==
    /\ variant = "downloader"
    /\ customPath = ""
    /\ gapiDir = FALSE
    /\ binary = "absent"
    /\ archive = "absent"
    /\ metaFile = MetaMissing
    /\ latest = "v1"
    /\ call = [c \in Calls |-> NewCall]
    /\ declined = NeverDeclined
    /\ maxChecked = RecordedLastChecked(metaFile)

InitMeta(versions) ==
    {MetaMissing, MetaCorrupt, MetaEmptyObject} \cup
    { MetaRecord(ver, 0) : ver \in versions }

InitEnsure ==
    /\ variant \in Variants
    /\ customPath \in {"", "api-linter"} \cup CustomPaths
    /\ gapiDir \in BOOLEAN
    /\ binary \in IF gapiDir THEN {"absent"} \cup Versions ELSE {"absent"}
    /\ archive = "absent"
    /\ metaFile \in IF gapiDir THEN InitMeta(Versions) ELSE {MetaMissing}
    /\ latest \in Versions
    /\ call = [c \in Calls |-> NewCall]
    /\ declined = NeverDeclined
    /\ maxChecked = RecordedLastChecked(metaFile)

\* a new release is published
Publish ==
    /\ asset = "executable"
    /\ latest = "v1"
    /\ latest' = "v2"
    /\ UNCHANGED <<variant, customPath, gapiDir, binary, archive, metaFile, call, declined,
                   maxChecked>>
    /\ UNCHANGED <<decodeVars, runVars, clockVars, corpusVars, editorVars>>

disk == <<binary, archive, metaFile>>

env == <<variant, customPath, latest, declined, maxChecked>>

\* the metadata file is trusted in place of the test for the executable
EnsureBinary_TrustsMetadata(c) ==
    /\ asset = "executable"
    /\ call[c].pc \in {"idle", "done", "failed"}
    /\ \E mkdirOk \in BOOLEAN :
          IF ~gapiDir /\ ~mkdirOk
          THEN /\ gapiDir' = gapiDir
               /\ call' = [call EXCEPT ![c] = Thrown(NewCall)]
          ELSE /\ gapiDir' = TRUE
               /\ LET custom == getCustomBinaryPath(customPath) IN
                  call' = [call EXCEPT ![c] =
                     IF custom # "" THEN Returned(NewCall, custom)
                     ELSE IF MetaReadable(metaFile) THEN [NewCall EXCEPT !.pc = "check"]
                     ELSE [NewCall EXCEPT !.pc = "release", !.sawAbsent = TRUE]]
    /\ UNCHANGED <<disk, env>>
    /\ UNCHANGED <<decodeVars, runVars, clockVars, corpusVars, editorVars>>

\* ensureBinary up to shouldCheckForUpdate or downloadBinary: ensureDirectory
\* (mkdir of the managed directory when it does not exist, which may fail and
\* then rejects the call), getCustomBinaryPath, binaryExists
EnsureBinary(c) ==
    /\ asset = "executable"
    /\ call[c].pc \in {"idle", "done", "failed"}
    /\ \E mkdirOk \in BOOLEAN :
          IF ~gapiDir /\ ~mkdirOk
          THEN /\ gapiDir' = gapiDir
               /\ call' = [call EXCEPT ![c] = Thrown(NewCall)]
          ELSE /\ gapiDir' = TRUE
               /\ LET custom == getCustomBinaryPath(customPath) IN
                  call' = [call EXCEPT ![c] =
                     IF custom # "" THEN Returned(NewCall, custom)
                     ELSE IF binary # "absent" THEN [NewCall EXCEPT !.pc = "check"]
                     ELSE [NewCall EXCEPT !.pc = "release", !.sawAbsent = TRUE]]
    /\ UNCHANGED <<disk, env>>
    /\ UNCHANGED <<decodeVars, runVars, clockVars, corpusVars, editorVars>>

\* shouldCheckForUpdate
ShouldCheckForUpdate(c) ==
    /\ call[c].pc = "check"
    /\ call' = [call EXCEPT ![c] =
          IF shouldCheckForUpdate(metaFile, now, CheckInterval(variant))
          THEN [@ EXCEPT !.pc = "latest", !.due = "due", !.fromCheck = TRUE]
          ELSE Returned([@ EXCEPT !.due = "notDue"], BINARY_PATH)]
    /\ UNCHANGED <<disk, env, gapiDir>>
    /\ UNCHANGED <<decodeVars, runVars, clockVars, corpusVars, editorVars>>

\* checkAndUpdate: getLatestVersion (fetchJson), which may fail
GetLatestVersion(c) ==
    /\ call[c].pc = "latest"
    /\ \E ok \in BOOLEAN :
          call' = [call EXCEPT ![c] =
             IF ok THEN [@ EXCEPT !.pc = "current", !.net = @ + 1, !.latestVersion = latest]
             ELSE Thrown([@ EXCEPT !.net = @ + 1])]
    /\ UNCHANGED <<disk, env, gapiDir>>
    /\ UNCHANGED <<decodeVars, runVars, clockVars, corpusVars, editorVars>>

\* checkAndUpdate: getCurrentVersion / getMetadata, then the comparison; a
\* BinaryManager that finds the executable up to date, and the one that does
\* not ask, go on without a prompt
GetCurrentVersion(c) ==
    /\ call[c].pc = "current"
    /\ LET differs == versionDiffers(variant, metaFile, call[c].latestVersion)
           cur == getCurrentVersion(metaFile)
       IN  call' = [call EXCEPT ![c] =
              IF differs /\ variant = "managerAuto"
              THEN [@ EXCEPT !.pc = "download", !.currentVersion = cur,
                             !.version = call[c].latestVersion]
              ELSE IF differs
              THEN [@ EXCEPT !.pc = "prompt", !.currentVersion = cur, !.prompts = @ + 1]
              ELSE [@ EXCEPT !.pc = "metaOpen", !.currentVersion = cur,
                             !.version = IF variant = "downloader" THEN cur
                                         ELSE call[c].latestVersion]]
    /\ UNCHANGED <<disk, env, gapiDir>>
    /\ UNCHANGED <<decodeVars, runVars, clockVars, corpusVars, editorVars>>

\* the user answers showInformationMessage(..., 'Update Now', 'Later');
\* dismissing the message resolves to undefined
Answers == {"Update Now", "Later", "dismissed"}

AnswerPrompt(c) ==
    /\ call[c].pc = "prompt"
    /\ \E a \in Answers :
          call' = [call EXCEPT ![c] =
             IF a = "Update Now"
             THEN [@ EXCEPT !.answer = a,
                            !.pc = IF variant = "downloader" THEN "release" ELSE "download",
                            !.version = call[c].latestVersion]
             ELSE [@ EXCEPT !.answer = a, !.pc = "metaOpen",
                            !.version = checkedVersion(variant, call[c].currentVersion,
                                                       call[c].latestVersion)]]
    /\ UNCHANGED <<disk, env, gapiDir>>
    /\ UNCHANGED <<decodeVars, runVars, clockVars, corpusVars, editorVars>>

\* downloadBinary: the release lookup (ApiLinterDownloader: fetchJson and
\* findAssetForPlatform; BinaryManager without a version: getLatestVersion)
FetchRelease(c) ==
    /\ call[c].pc = "release"
    /\ \E ok \in BOOLEAN :
          call' = [call EXCEPT ![c] =
             IF ok THEN [@ EXCEPT !.pc = "download", !.net = @ + 1, !.version = latest]
             ELSE Thrown([@ EXCEPT !.net = @ + 1])]
    /\ UNCHANGED <<disk, env, gapiDir>>
    /\ UNCHANGED <<decodeVars, runVars, clockVars, corpusVars, editorVars>>

\* a downloadBinary that persists the metadata as soon as the archive is there
DownloadFile_MetadataFirst(c) ==
    /\ call[c].pc = "download"
    /\ \E ok \in BOOLEAN :
          IF ok
          THEN /\ archive' = call[c].version
               /\ metaFile' = MetaRecord(call[c].version, now)
               /\ call' = [call EXCEPT ![c] =
                     [@ EXCEPT !.pc = "extract", !.net = @ + 1, !.downloads = @ + 1]]
          ELSE /\ archive' = archive
               /\ metaFile' = metaFile
               /\ call' = [call EXCEPT ![c] =
                     Thrown([@ EXCEPT !.net = @ + 1, !.downloads = @ + 1])]
    /\ UNCHANGED <<binary, env, gapiDir>>
    /\ UNCHANGED <<decodeVars, runVars, clockVars, corpusVars, editorVars>>

\* downloadBinary: downloadFile(downloadUrl, tarPath)
DownloadFile(c) ==
    /\ call[c].pc = "download"
    /\ \E ok \in BOOLEAN :
          IF ok
          THEN /\ archive' = call[c].version
               /\ call' = [call EXCEPT ![c] =
                     [@ EXCEPT !.pc = "extract", !.net = @ + 1, !.downloads = @ + 1]]
          ELSE /\ archive' = archive
               /\ call' = [call EXCEPT ![c] =
                     Thrown([@ EXCEPT !.net = @ + 1, !.downloads = @ + 1])]
    /\ UNCHANGED <<binary, metaFile, env, gapiDir>>
    /\ UNCHANGED <<decodeVars, runVars, clockVars, corpusVars, editorVars>>

\* extractBinary: tar starts to write the executable, or fails at once, or
\* ends without an executable at the install path (the archive holds none)
ExtractBegin(c) ==
    /\ call[c].pc = "extract"
    /\ \E tar \in {"writes", "fails", "nothing"} :
          IF tar = "writes" /\ archive # "absent"
          THEN /\ binary' = "partial"
               /\ call' = [call EXCEPT ![c] = [@ EXCEPT !.pc = "extracting", !.extracts = @ + 1]]
          ELSE IF tar = "nothing" /\ archive # "absent"
          THEN /\ binary' = binary
               /\ call' = [call EXCEPT ![c] = [@ EXCEPT !.pc = "chmod", !.extracts = @ + 1]]
          ELSE /\ binary' = binary
               /\ call' = [call EXCEPT ![c] = Thrown(@)]
    /\ UNCHANGED <<archive, metaFile, env, gapiDir>>
    /\ UNCHANGED <<decodeVars, runVars, clockVars, corpusVars, editorVars>>

\* extractBinary: tar has written the executable of the archive, or fails
\* with the executable written in part
ExtractEnd(c) ==
    /\ call[c].pc = "extracting"
    /\ \E ok \in BOOLEAN :
          IF ok
          THEN /\ binary' = IF archive # "absent" THEN archive ELSE call[c].version
               /\ call' = [call EXCEPT ![c] = [@ EXCEPT !.pc = "chmod"]]
          ELSE /\ binary' = binary
               /\ call' = [call EXCEPT ![c] = Thrown(@)]
    /\ UNCHANGED <<archive, metaFile, env, gapiDir>>
    /\ UNCHANGED <<decodeVars, runVars, clockVars, corpusVars, editorVars>>

\* chmod of the executable, which throws when there is none, and unlinkSync
\* of the archive.  unlinkSync is inside try/catch in the BinaryManager and
\* bare in ApiLinterDownloader
ChmodAndUnlink(c) ==
    /\ call[c].pc = "chmod"
    /\ \E chmodOk \in BOOLEAN, unlinkOk \in BOOLEAN :
          IF ~chmodOk \/ binary = "absent"
          THEN /\ archive' = archive
               /\ call' = [call EXCEPT ![c] = Thrown(@)]
          ELSE IF unlinkOk /\ archive # "absent"
          THEN /\ archive' = "absent"
               /\ call' = [call EXCEPT ![c] = [@ EXCEPT !.pc = "metaOpen", !.unlink = "done"]]
          ELSE /\ archive' = archive
               /\ call' = [call EXCEPT ![c] =
                     IF variant = "downloader" THEN Thrown([@ EXCEPT !.unlink = "failed"])
                     ELSE [@ EXCEPT !.pc = "metaOpen", !.unlink = "failed"]]
    /\ UNCHANGED <<binary, metaFile, env, gapiDir>>
    /\ UNCHANGED <<decodeVars, runVars, clockVars, corpusVars, editorVars>>

\* updateMetadata(version): the record is built with Date.now() and
\* writeFile opens the file, truncating it; or writeFile fails
UpdateMetadataOpen(c) ==
    /\ call[c].pc = "metaOpen"
    /\ \E ok \in BOOLEAN :
          IF ok
          THEN /\ metaFile' = MetaCorrupt
               /\ call' = [call EXCEPT ![c] = [@ EXCEPT !.pc = "metaWrite", !.stamp = now]]
          ELSE /\ metaFile' = metaFile
               /\ call' = [call EXCEPT ![c] = Thrown(@)]
    /\ UNCHANGED <<binary, archive, env, gapiDir>>
    /\ UNCHANGED <<decodeVars, runVars, clockVars, corpusVars, editorVars>>

\* writeFile completes.  After the download of an update ApiLinterDownloader's
\* checkAndUpdate goes on to updateMetadata(currentVersion)
UpdateMetadataWrite(c) ==
    /\ call[c].pc = "metaWrite"
    /\ metaFile' = MetaRecord(call[c].version, call[c].stamp)
    /\ call' = [call EXCEPT ![c] =
          IF variant = "downloader" /\ call[c].fromCheck /\ call[c].answer = "Update Now"
             /\ call[c].metaWrites = 0
          THEN [@ EXCEPT !.pc = "metaOpen", !.metaWrites = @ + 1,
                         !.version = call[c].currentVersion]
          ELSE Returned([@ EXCEPT !.metaWrites = @ + 1], BINARY_PATH)]
    /\ declined' = IF call[c].answer \in {"Later", "dismissed"}
                   THEN [at |-> call[c].stamp, was |-> call[c].currentVersion,
                         version |-> call[c].version]
                   ELSE declined
    /\ maxChecked' = IF call[c].stamp > maxChecked THEN call[c].stamp ELSE maxChecked
    /\ UNCHANGED <<binary, archive, variant, customPath, latest, gapiDir>>
    /\ UNCHANGED <<decodeVars, runVars, clockVars, corpusVars, editorVars>>

\* one step of the call c of ensureBinary
EnsureStep(c) ==
    \/ EnsureBinary(c)
    \/ ShouldCheckForUpdate(c)
    \/ GetLatestVersion(c)
    \/ GetCurrentVersion(c)
    \/ AnswerPrompt(c)
    \/ FetchRelease(c)
    \/ DownloadFile(c)
    \/ ExtractBegin(c)
    \/ ExtractEnd(c)
    \/ ChmodAndUnlink(c)
    \/ UpdateMetadataOpen(c)
    \/ UpdateMetadataWrite(c)

(***************************************************************************)
(* The provisioner of a reference corpus: ensureGoogleapis (ensureProtobuf *)
(* is the same code over the protobuf names).                              *)
(***************************************************************************)
\* shouldDownloadGoogleapis: thirtyDays
thirtyDays == 30 * 24 * 60 * 60

\* shouldDownloadGoogleapis
shouldDownloadGoogleapis(dirExists, m, t) ==
    IF ~dirExists THEN TRUE
    ELSE IF ~MetaReadable(m) THEN TRUE
    ELSE IF ~m.hasTime THEN FALSE
    ELSE (t - m.lastChecked) > thirtyDays

\* escaped: an exception left an event handler of the download, outside the
\* promise of the call; refused: the file system refused the renameSync
NewCorpusCall ==
    [pc |-> "idle", due |-> "unset", stamp |-> 0, net |-> 0, escaped |-> FALSE,
     refused |-> FALSE]

CorpusIdle ==
    /\ corpusDir = "absent"
    /\ corpusZip = FALSE
    /\ corpusTemp = "absent"
    /\ corpusMeta = MetaMissing
    /\ corpusCall = NewCorpusCall

InitCorpus ==
    /\ corpusDir \in {"absent", "old"}
    /\ corpusZip = FALSE
    /\ corpusTemp = "absent"
    /\ corpusMeta \in InitMeta({"master"})
    /\ corpusCall = NewCorpusCall

\* ensureGoogleapis up to the download: shouldDownloadGoogleapis
EnsureGoogleapis ==
    /\ asset = "corpus"
    /\ corpusCall.pc \in {"idle", "done", "failed"}
    /\ corpusCall' =
          IF shouldDownloadGoogleapis(corpusDir # "absent", corpusMeta, now)
          THEN [NewCorpusCall EXCEPT !.pc = "zip", !.due = "due"]
          ELSE [NewCorpusCall EXCEPT !.pc = "done", !.due = "notDue"]
    /\ UNCHANGED <<corpusDir, corpusZip, corpusTemp, corpusMeta>>
    /\ UNCHANGED <<decodeVars, runVars, clockVars, provVars, editorVars>>

\* how a download ends: the archive is written ('finish'), the first
\* request emits 'error', or the redirected request emits 'error'
DownloadOutcomes == {"finish", "errorFirst", "errorRedirect"}

\* downloadGoogleapisZip: createWriteStream(zipPath), which opens the file
\* asynchronously, and https.get.  The archive is written and the promise
\* resolves; or the redirected request fails and its handler is reject; or
\* the first request fails and its handler calls fs.unlinkSync(zipPath) and
\* then reject: unlinkSync throws when the file has not been created, the
\* exception leaves the handler and the promise is never settled
DownloadGoogleapisZip ==
    /\ corpusCall.pc = "zip"
    /\ \E outcome \in DownloadOutcomes, created \in BOOLEAN :
          /\ outcome = "finish" => created
          /\ corpusZip' = (created /\ outcome # "errorFirst")
          /\ corpusCall' =
                IF outcome = "finish" THEN [corpusCall EXCEPT !.pc = "unzip", !.net = @ + 1]
                ELSE IF outcome = "errorRedirect" \/ created
                THEN [corpusCall EXCEPT !.pc = "failed", !.net = @ + 1]
                ELSE [corpusCall EXCEPT !.pc = "hung", !.net = @ + 1, !.escaped = TRUE]
    /\ UNCHANGED <<corpusDir, corpusTemp, corpusMeta>>
    /\ UNCHANGED <<decodeVars, runVars, clockVars, provVars, editorVars>>

\* extractGoogleapis: the temporary directory is emptied and unzip starts
ExtractGoogleapisStart ==
    /\ corpusCall.pc = "unzip"
    /\ corpusTemp' = "empty"
    /\ corpusCall' = [corpusCall EXCEPT !.pc = "unzipping"]
    /\ UNCHANGED <<corpusDir, corpusZip, corpusMeta>>
    /\ UNCHANGED <<decodeVars, runVars, clockVars, provVars, editorVars>>

\* extractGoogleapis: unzip ends with the archive's top-level directory in
\* the temporary directory, and the callback removes the prior copy
\* (existsSync, rmSync of GOOGLEAPIS_DIR); or unzip fails
ExtractGoogleapisEnd ==
    /\ corpusCall.pc = "unzipping"
    /\ \E top \in {"failed", "googleapis-master", "other"} :
          IF top = "failed"
          THEN /\ corpusCall' = [corpusCall EXCEPT !.pc = "failed"]
               /\ UNCHANGED <<corpusDir, corpusTemp>>
          ELSE /\ corpusDir' = "absent"
               /\ corpusTemp' = top
               /\ corpusCall' = [corpusCall EXCEPT !.pc = "rename"]
    /\ UNCHANGED <<corpusZip, corpusMeta>>
    /\ UNCHANGED <<decodeVars, runVars, clockVars, provVars, editorVars>>

\* extractGoogleapis: renameSync of googleapis-master to the corpus directory
\* and rmSync of the temporary directory; the rename throws when the
\* archive's top-level directory has another name or the file system refuses.
\* ensureGoogleapis then unlinks the archive inside try/catch
RenameGoogleapis ==
    /\ corpusCall.pc = "rename"
    /\ \E renameOk \in BOOLEAN, unlinkOk \in BOOLEAN :
          IF renameOk /\ corpusTemp = "googleapis-master"
          THEN /\ corpusDir' = "new"
               /\ corpusTemp' = "absent"
               /\ corpusZip' = IF unlinkOk THEN FALSE ELSE corpusZip
               /\ corpusCall' = [corpusCall EXCEPT !.pc = "metaOpen"]
          ELSE /\ corpusCall' = [corpusCall EXCEPT !.pc = "failed", !.refused = ~renameOk]
               /\ UNCHANGED <<corpusDir, corpusZip, corpusTemp>>
    /\ UNCHANGED corpusMeta
    /\ UNCHANGED <<decodeVars, runVars, clockVars, provVars, editorVars>>

\* updateGoogleapisMetadata: Date.now() and the opening of the file
UpdateGoogleapisMetadataOpen ==
    /\ corpusCall.pc = "metaOpen"
    /\ \E ok \in BOOLEAN :
          IF ok
          THEN /\ corpusMeta' = MetaCorrupt
               /\ corpusCall' = [corpusCall EXCEPT !.pc = "metaWrite", !.stamp = now]
          ELSE /\ corpusMeta' = corpusMeta
               /\ corpusCall' = [corpusCall EXCEPT !.pc = "failed"]
    /\ UNCHANGED <<corpusDir, corpusZip, corpusTemp>>
    /\ UNCHANGED <<decodeVars, runVars, clockVars, provVars, editorVars>>

\* updateGoogleapisMetadata: writeFile completes
UpdateGoogleapisMetadataWrite ==
    /\ corpusCall.pc = "metaWrite"
    /\ corpusMeta' = MetaRecord("master", corpusCall.stamp)
    /\ corpusCall' = [corpusCall EXCEPT !.pc = "done", !.stamp = 0]
    /\ UNCHANGED <<corpusDir, corpusZip, corpusTemp>>
    /\ UNCHANGED <<decodeVars, runVars, clockVars, provVars, editorVars>>

CorpusStep ==
    \/ EnsureGoogleapis
    \/ DownloadGoogleapisZip
    \/ ExtractGoogleapisStart
    \/ ExtractGoogleapisEnd
    \/ RenameGoogleapis
    \/ UpdateGoogleapisMetadataOpen
    \/ UpdateGoogleapisMetadataWrite

(***************************************************************************)
(* Lint requests for one document: ApiLinterProvider.lintDocument (and the *)
(* language server's validateTextDocument, which has the same shape).  A   *)
(* request awaits ensureBinary, then runLinter, then sets the document's   *)
(* diagnostics.  Requests are numbered in the order of their issue.        *)
(***************************************************************************)
MaxRequests == 3
MaxSaves == 2

Requests == 1..MaxRequests

\* read is the version of the file the spawned linter reads
NewLint == [pc |-> "idle", read |-> -1]

\* diagnosticCollection of the document: by which request, of which version
NoDiagnostics == [by |-> 0, of |-> -1]

\* a condition that makes every attempt fail in the same way for as long as
\* it lasts: ensureBinary throws (the executable stays missing) or the spawn
\* of the linter fails
Outages == {"none", "ensureBinary", "runLinter"}

\* the text of vscode.window.showErrorMessage in the catch block of
\* lintDocument: `Google API Linter error: ${error}`
ErrorMessage(error) == <<"Google API Linter error: ", error>>

LintIdle ==
    /\ lintReq = [r \in Requests |-> NewLint]
    /\ fileVersion = 0
    /\ displayed = NoDiagnostics
    /\ outage = "none"
    /\ shown = <<>>

\* the extension is active, nothing linted yet; the condition is there or not
InitLintRequests ==
    /\ lintReq = [r \in Requests |-> NewLint]
    /\ fileVersion = 0
    /\ displayed = NoDiagnostics
    /\ outage \in Outages
    /\ shown = <<>>

\* the document is edited and saved
SaveDocument ==
    /\ fileVersion < MaxSaves
    /\ fileVersion' = fileVersion + 1
    /\ UNCHANGED <<lintReq, displayed, outage, shown>>
    /\ UNCHANGED <<decodeVars, runVars, clockVars, provVars, corpusVars, hoverVars, argVars, extensionVars>>

\* lintDocument is called (open, save, command, debounce timer): up to the
\* first await
LintDocument(r) ==
    /\ lintReq[r].pc = "idle"
    /\ r > 1 => lintReq[r - 1].pc # "idle"
    /\ lintReq' = [lintReq EXCEPT ![r].pc = "ensure"]
    /\ UNCHANGED <<fileVersion, displayed, outage, shown>>
    /\ UNCHANGED <<decodeVars, runVars, clockVars, provVars, corpusVars, hoverVars, argVars, extensionVars>>

\* await this.binaryManager.ensureBinary() settles: runLinter spawns the
\* linter on the file as it is now, or the catch block reports the error
AwaitEnsureBinary(r) ==
    /\ lintReq[r].pc = "ensure"
    /\ \E ok \in BOOLEAN :
          /\ outage = "ensureBinary" => ~ok
          /\ lintReq' = [lintReq EXCEPT ![r] =
                IF ok THEN [pc |-> "run", read |-> fileVersion]
                ELSE [@ EXCEPT !.pc = "failed"]]
          /\ shown' = IF ok THEN shown
                      ELSE Append(shown, ErrorMessage("ensureBinary"))
    /\ UNCHANGED <<fileVersion, displayed, outage>>
    /\ UNCHANGED <<decodeVars, runVars, clockVars, provVars, corpusVars, hoverVars, argVars, extensionVars>>

\* await this.runLinter(...) settles: diagnosticCollection.set(uri,
\* diagnostics), or the catch block reports the error
AwaitRunLinter(r) ==
    /\ lintReq[r].pc = "run"
    /\ \E ok \in BOOLEAN :
          /\ outage = "runLinter" => ~ok
          /\ IF ok
             THEN /\ lintReq' = [lintReq EXCEPT ![r].pc = "done"]
                  /\ displayed' = [by |-> r, of |-> lintReq[r].read]
                  /\ shown' = shown
             ELSE /\ lintReq' = [lintReq EXCEPT ![r].pc = "failed"]
                  /\ displayed' = displayed
                  /\ shown' = Append(shown, ErrorMessage("runLinter"))
    /\ UNCHANGED <<fileVersion, outage>>
    /\ UNCHANGED <<decodeVars, runVars, clockVars, provVars, corpusVars, hoverVars, argVars, extensionVars>>

LintStep(r) ==
    \/ LintDocument(r)
    \/ AwaitEnsureBinary(r)
    \/ AwaitRunLinter(r)

(***************************************************************************)
(* Hover: ApiLinterHoverProvider.  A rule page is abstracted to the parts  *)
(* parseRuleHtml looks for; markdown is a sequence of blocks.              *)
(***************************************************************************)
MaxHovers == 2

Hovers == 1..MaxHovers

\* code.target of a diagnostic; "" when the diagnostic has none
Uris == {"u1", "u2"}

\* what the site serves: the paragraph under <h2 id="details"> ("none"
\* without the heading) and the part between <h2 id="examples"> and the next
\* <h2: absent, without a code block, or with the incorrect and/or the
\* correct code block
Pages ==
    [details : {"none", "d1"},
     examples : {"none", "noCode", "incorrect", "correct", "both"}]

Placeholder == <<"**Documentation available at the link below.**">>

\* parseRuleHtml without the fallback: the markdown built from the matches
ruleMarkdown(html) ==
    (IF html.details # "none" THEN <<"**Details:**", html.details>> ELSE <<>>)
    \o (IF html.examples \in {"incorrect", "correct", "both"} THEN <<"---">> ELSE <<>>)
    \o (IF html.examples \in {"incorrect", "both"} THEN <<"#### Incorrect Example">> ELSE <<>>)
    \o (IF html.examples \in {"correct", "both"} THEN <<"#### Correct Example">> ELSE <<>>)

\* parseRuleHtml that returns the empty markdown as it is
parseRuleHtml_NoFallback(html) ==
    ruleMarkdown(html)

\* parseRuleHtml: markdown || placeholder
parseRuleHtml(html) ==
    IF ruleMarkdown(html) = <<>> THEN Placeholder ELSE ruleMarkdown(html)

NoPage == [details |-> "none", examples |-> "none"]

\* source: where the guidance came from ("none", "cache", "page", "error")
NewHover ==
    [pc |-> "idle", uri |-> "", markdown |-> <<>>, guidance |-> <<>>,
     source |-> "none", page |-> NoPage]

\* an entry of guidanceCache; by is the hover request that stored it
NotCached == [has |-> FALSE, body |-> <<>>, by |-> 0]

HoverIdle ==
    /\ hover = [h \in Hovers |-> NewHover]
    /\ guidanceCache = [u \in Uris |-> NotCached]
    /\ fetches = [u \in Uris |-> 0]

\* a fetchRuleGuidance that never finds the URI in the cache
guidanceCacheHas_Never(cache, ruleUri) ==
    FALSE

\* this.guidanceCache.has(ruleUri)
guidanceCacheHas(cache, ruleUri) ==
    cache[ruleUri].has

\* appendRuleHeader and appendSeverityAndMessage
HoverHead(ruleUri) ==
    <<IF ruleUri # "" THEN "### Rule: [ruleId](ruleUri)" ELSE "### Rule: ruleId",
      "**severity:** message">>

\* appendDiagnosticInfo after fetchRuleGuidance returned
HoverTail(guidance) == guidance \o <<"[View Full Documentation](ruleUri)">>

\* provideHover over a diagnostic: the header and the message are appended;
\* without a rule URI the hover is complete, with a cached URI
\* fetchRuleGuidance returns the cached body, otherwise it calls fetchHtml
ProvideHover(h) ==
    /\ hover[h].pc = "idle"
    /\ h > 1 => hover[h - 1].pc # "idle"
    /\ \E ruleUri \in Uris \cup {""} :
          IF ruleUri = ""
          THEN /\ hover' = [hover EXCEPT ![h] =
                     [@ EXCEPT !.pc = "done", !.markdown = HoverHead(ruleUri)]]
               /\ fetches' = fetches
          ELSE IF guidanceCacheHas(guidanceCache, ruleUri)
          THEN /\ hover' = [hover EXCEPT ![h] =
                     [@ EXCEPT !.pc = "done", !.uri = ruleUri, !.source = "cache",
                               !.guidance = guidanceCache[ruleUri].body,
                               !.markdown = HoverHead(ruleUri)
                                            \o HoverTail(guidanceCache[ruleUri].body)]]
               /\ fetches' = fetches
          ELSE /\ hover' = [hover EXCEPT ![h] =
                     [@ EXCEPT !.pc = "fetching", !.uri = ruleUri,
                               !.markdown = HoverHead(ruleUri)]]
               /\ fetches' = [fetches EXCEPT ![ruleUri] = @ + 1]
    /\ UNCHANGED guidanceCache
    /\ UNCHANGED <<decodeVars, runVars, clockVars, provVars, corpusVars, lintVars, argVars, extensionVars>>

\* fetchHtml resolves with the page: it is parsed, cached and returned
FetchHtmlResolves(h) ==
    /\ hover[h].pc = "fetching"
    /\ \E html \in Pages :
          /\ hover' = [hover EXCEPT ![h] =
                [@ EXCEPT !.pc = "done", !.source = "page", !.page = html,
                          !.guidance = parseRuleHtml(html),
                          !.markdown = @ \o HoverTail(parseRuleHtml(html))]]
          /\ guidanceCache' = [guidanceCache EXCEPT ![hover[h].uri] =
                [has |-> TRUE, body |-> parseRuleHtml(html), by |-> h]]
    /\ UNCHANGED fetches
    /\ UNCHANGED <<decodeVars, runVars, clockVars, provVars, corpusVars, lintVars, argVars, extensionVars>>

\* fetchHtml rejects: the catch block logs and returns the placeholder;
\* nothing is cached
FetchHtmlRejects(h) ==
    /\ hover[h].pc = "fetching"
    /\ hover' = [hover EXCEPT ![h] =
          [@ EXCEPT !.pc = "done", !.source = "error", !.guidance = Placeholder,
                    !.markdown = @ \o HoverTail(Placeholder)]]
    /\ UNCHANGED <<guidanceCache, fetches>>
    /\ UNCHANGED <<decodeVars, runVars, clockVars, provVars, corpusVars, lintVars, argVars, extensionVars>>

HoverStep(h) ==
    \/ ProvideHover(h)
    \/ FetchHtmlResolves(h)
    \/ FetchHtmlRejects(h)

(***************************************************************************)
(* buildLinterArgs, in its three variants: the one that resolves workspace *)
(* variables and tests each directory (resolving), the same without the    *)
(* descriptor sets and --ignore-comment-disables (lean), and the one of    *)
(* utils/linterUtils.ts (plain); and its two callers, the provider's       *)
(* runLinter and the language server's, which appends additionalArgs.      *)
(***************************************************************************)
MaxImportPaths == 2

\* the file linted, its directory, the workspace folder and the corpus
\* directories buildLinterArgs looks for
fileName == "a.proto"
workingDir == "/ws/api"
workspaceRoot == "/ws"
workspaceGapiDir == "/ws/.gapi/googleapis"
homeGapiDir == "/home/.gapi/googleapis"
ConfigFile == "/ws/cfg.yaml"

\* values of gapi.protoPath: a directory, directories under a workspace
\* placeholder, and the directory of the file itself
ConfiguredPaths ==
    {"/ws/protos", "${workspaceFolder}/protos", "${workspaceRoot}/other", "/ws/api"}

\* values of gapi.configPath
ConfiguredConfigs == {"", "/ws/cfg.yaml", "${workspaceFolder}/cfg.yaml"}

\* the strings that hold a placeholder
HasPlaceholder(str) ==
    str \in {"${workspaceFolder}/protos", "${workspaceRoot}/other", "${workspaceFolder}/cfg.yaml",
             "/cwd/${workspaceFolder}/protos", "/cwd/${workspaceRoot}/other",
             "/cwd/${workspaceFolder}/cfg.yaml"}

\* resolveWorkspaceVariables: with a workspace folder ${workspaceFolder} and
\* ${workspaceRoot} become its path; then path.resolve, which puts the
\* process's working directory before a relative path
resolveWorkspaceVariables(pathStr, hasWorkspace) ==
    IF pathStr = "${workspaceFolder}/protos"
    THEN IF hasWorkspace THEN "/ws/protos" ELSE "/cwd/${workspaceFolder}/protos"
    ELSE IF pathStr = "${workspaceRoot}/other"
    THEN IF hasWorkspace THEN "/ws/other" ELSE "/cwd/${workspaceRoot}/other"
    ELSE IF pathStr = "${workspaceFolder}/cfg.yaml"
    THEN IF hasWorkspace THEN "/ws/cfg.yaml" ELSE "/cwd/${workspaceFolder}/cfg.yaml"
    ELSE pathStr

\* what may or may not exist on disk; the directory of the file exists
Entries ==
    {workspaceRoot, workspaceGapiDir, homeGapiDir, ConfigFile, "/ws/protos", "/ws/other"}

existsSync(o, p) == p = workingDir \/ p \in o.existing

ArgVariants == {"resolving", "lean", "plain"}

\* rule lists, descriptor sets and flags of the options
RuleOptions ==
    { [disableRules |-> <<>>, enableRules |-> <<>>, descriptorSetIn |-> <<>>,
       ignoreCommentDisables |-> FALSE, setExitStatus |-> FALSE],
      [disableRules |-> <<"core">>, enableRules |-> <<"all">>, descriptorSetIn |-> <<"d.pb">>,
       ignoreCommentDisables |-> TRUE, setExitStatus |-> TRUE],
      [disableRules |-> <<"core", "aip">>, enableRules |-> <<>>, descriptorSetIn |-> <<>>,
       ignoreCommentDisables |-> FALSE, setExitStatus |-> TRUE],
      [disableRules |-> <<>>, enableRules |-> <<>>, descriptorSetIn |-> <<"d.pb">>,
       ignoreCommentDisables |-> TRUE, setExitStatus |-> FALSE] }

\* ApiLinterProvider.runLinter: the options of getLinterOptions
ProviderInput(v, w, e, c, p, r) ==
    [variant |-> v, caller |-> "provider", hasWorkspace |-> w, existing |-> e,
     configPath |-> c, protoPath |-> p,
     disableRules |-> r.disableRules, enableRules |-> r.enableRules,
     descriptorSetIn |-> r.descriptorSetIn,
     ignoreCommentDisables |-> r.ignoreCommentDisables,
     setExitStatus |-> r.setExitStatus, additionalArgs |-> <<>>]

\* the language server's runLinter: only configPath comes from the settings,
\* and settings.additionalArgs is appended to the arguments built
ServerInput(v, w, e, c, a) ==
    [variant |-> v, caller |-> "server", hasWorkspace |-> w, existing |-> e,
     configPath |-> c, protoPath |-> <<>>,
     disableRules |-> <<>>, enableRules |-> <<>>, descriptorSetIn |-> <<>>,
     ignoreCommentDisables |-> FALSE, setExitStatus |-> FALSE, additionalArgs |-> a]

AdditionalArgs == {<<>>, <<"--verbose">>}

\* the file, the options and the disk of one call of either caller
IsArgInput(o) ==
    \E v \in ArgVariants, w \in BOOLEAN, e \in SUBSET Entries, c \in ConfiguredConfigs :
       \/ \E p \in SeqsUpTo(ConfiguredPaths, MaxImportPaths), r \in RuleOptions :
             o = ProviderInput(v, w, e, c, p, r)
       \/ \E a \in AdditionalArgs : o = ServerInput(v, w, e, c, a)

\* args.push(flag, v) for each v of a list
RECURSIVE pushEach(_, _)
pushEach(flag, list) ==
    IF list = <<>> THEN <<>>
    ELSE <<flag, Head(list)>> \o pushEach(flag, Tail(list))

\* the forEach over options.protoPath of the resolving variants
RECURSIVE pushExistingProtoPaths(_, _)
pushExistingProtoPaths(list, o) ==
    IF list = <<>> THEN <<>>
    ELSE (IF existsSync(o, resolveWorkspaceVariables(Head(list), o.hasWorkspace))
          THEN <<"--proto-path", resolveWorkspaceVariables(Head(list), o.hasWorkspace)>>
          ELSE <<>>)
         \o pushExistingProtoPaths(Tail(list), o)

\* the flags the resolving and the plain variant end with
argsTail(o) ==
    pushEach("--disable-rule", o.disableRules)
    \o pushEach("--enable-rule", o.enableRules)
    \o pushEach("--descriptor-set-in", o.descriptorSetIn)
    \o (IF o.ignoreCommentDisables THEN <<"--ignore-comment-disables">> ELSE <<>>)
    \o (IF o.setExitStatus THEN <<"--set-exit-status">> ELSE <<>>)
    \o <<"--output-format", "json", fileName>>

\* the flags the lean variant ends with
argsTailLean(o) ==
    pushEach("--disable-rule", o.disableRules)
    \o pushEach("--enable-rule", o.enableRules)
    \o (IF o.setExitStatus THEN <<"--set-exit-status">> ELSE <<>>)
    \o <<"--output-format", "json", fileName>>

\* buildLinterArgs of utils/linterUtils.ts
buildLinterArgsPlain(o) ==
    (IF o.configPath # "" /\ existsSync(o, o.configPath)
     THEN <<"--config", o.configPath>> ELSE <<>>)
    \o <<"--proto-path", workingDir>>
    \o pushEach("--proto-path", o.protoPath)
    \o argsTail(o)

\* buildLinterArgs with resolveWorkspaceVariables and existsSync, up to the
\* import paths
argsHeadResolving(o) ==
    (IF o.configPath # ""
        /\ existsSync(o, resolveWorkspaceVariables(o.configPath, o.hasWorkspace))
     THEN <<"--config", resolveWorkspaceVariables(o.configPath, o.hasWorkspace)>> ELSE <<>>)
    \o <<"--proto-path", workingDir>>
    \o (IF o.hasWorkspace /\ workspaceRoot # workingDir /\ existsSync(o, workspaceRoot)
        THEN <<"--proto-path", workspaceRoot>> ELSE <<>>)
    \o (IF o.hasWorkspace /\ existsSync(o, workspaceGapiDir)
        THEN <<"--proto-path", workspaceGapiDir>> ELSE <<>>)
    \o (IF existsSync(o, homeGapiDir) THEN <<"--proto-path", homeGapiDir>> ELSE <<>>)
    \o pushExistingProtoPaths(o.protoPath, o)

buildLinterArgsResolving(o) == argsHeadResolving(o) \o argsTail(o)

buildLinterArgsLean(o) == argsHeadResolving(o) \o argsTailLean(o)

buildLinterArgs(o) ==
    IF o.variant = "plain" THEN buildLinterArgsPlain(o)
    ELSE IF o.variant = "lean" THEN buildLinterArgsLean(o)
    ELSE buildLinterArgsResolving(o)

\* the arguments and the working directory of cp.spawn
NoArgs == [built |-> FALSE, args |-> <<>>, cwd |-> ""]

ArgsIdle ==
    /\ argIn = [variant |-> "plain", caller |-> "provider", hasWorkspace |-> FALSE,
                existing |-> {}, configPath |-> "", protoPath |-> <<>>,
                disableRules |-> <<>>, enableRules |-> <<>>, descriptorSetIn |-> <<>>,
                ignoreCommentDisables |-> FALSE, setExitStatus |-> FALSE,
                additionalArgs |-> <<>>]
    /\ argOut = NoArgs

InitArgs ==
    /\ IsArgInput(argIn)
    /\ argOut = NoArgs

\* runLinter: buildLinterArgs(filePath, options), the server's
\* args.push(...settings.additionalArgs), and cp.spawn(binaryPath, args,
\* { cwd: workingDir })
BuildLinterArgs ==
    /\ ~argOut.built
    /\ argOut' = [built |-> TRUE,
                  args |-> buildLinterArgs(argIn)
                           \o (IF argIn.caller = "server" THEN argIn.additionalArgs ELSE <<>>),
                  cwd |-> workingDir]
    /\ UNCHANGED argIn
    /\ UNCHANGED <<decodeVars, runVars, clockVars, provVars, corpusVars, lintVars, hoverVars, extensionVars>>

(***************************************************************************)
(* Linting on type: registerDocumentListeners.  The clock counts half      *)
(* seconds.  A timer is a record of its id, its document and the time it   *)
(* is due; handle holds what the listener keeps to clear a timer: the one  *)
(* module-level lintTimeout, or the entry of the timeouts map for a        *)
(* document.  changes and lintStarts record, per document, the times of    *)
(* the change events and of the calls of lintDocument.                     *)
(***************************************************************************)
MaxTimers == 3
MaxTypeTicks == 7

Docs == {"a.proto", "b.proto"}

\* setTimeout(..., 1000), in half seconds
DebounceTicks == 2

\* the two registerDocumentListeners of the repository
Debounces == {"lintTimeout", "timeouts"}

Slots == Docs \cup {"lintTimeout"}

\* where the listener keeps the timer of a document
Slot(d) == IF listeners.debounce = "lintTimeout" THEN "lintTimeout" ELSE d

NoTimer == 0

TypeIdle ==
    /\ listeners = [debounce |-> "timeouts", enableOnSave |-> FALSE]
    /\ typeNow = 0
    /\ armed = {}
    /\ handle = [x \in Slots |-> NoTimer]
    /\ nextTimer = 1
    /\ running = {}
    /\ isDirty = [d \in Docs |-> FALSE]
    /\ changes = [d \in Docs |-> <<>>]
    /\ lintStarts = [d \in Docs |-> <<>>]

\* registerDocumentListeners has run with enableOnType set
InitType ==
    /\ listeners \in [debounce : Debounces, enableOnSave : BOOLEAN]
    /\ typeNow = 0
    /\ armed = {}
    /\ handle = [x \in Slots |-> NoTimer]
    /\ nextTimer = 1
    /\ running = {}
    /\ isDirty = [d \in Docs |-> FALSE]
    /\ changes = [d \in Docs |-> <<>>]
    /\ lintStarts = [d \in Docs |-> <<>>]

\* clearTimeout: a timer that has fired or was cleared is not in armed
clearTimeout(timers, id) == {t \in timers : t.id # id}

\* the onDidChangeTextDocument listener for a proto file; a timer that is due
\* at the time of the event has fired before it
ChangeTextDocument(d) ==
    /\ nextTimer <= MaxTimers
    /\ \A t \in armed : t.due > typeNow
    /\ armed' = clearTimeout(armed, handle[Slot(d)])
                   \cup {[id |-> nextTimer, doc |-> d, due |-> typeNow + DebounceTicks]}
    /\ handle' = [handle EXCEPT ![Slot(d)] = nextTimer]
    /\ nextTimer' = nextTimer + 1
    /\ isDirty' = [isDirty EXCEPT ![d] = TRUE]
    /\ changes' = [changes EXCEPT ![d] = Append(@, typeNow)]
    /\ UNCHANGED <<listeners, typeNow, running, lintStarts>>
    /\ UNCHANGED <<decodeVars, runVars, clockVars, provVars, corpusVars, lintVars, hoverVars, argVars>>
    /\ UNCHANGED <<workspaceVars, downloadVars>>

\* the calls of lintDocument that the callback of a timer makes when it
\* fires: lintDocument(document, true), and, when that saves a dirty document
\* and linting on save is enabled, the lintDocument of the
\* onDidSaveTextDocument listener
lintsOfTimeout(d) ==
    IF isDirty[d] /\ listeners.enableOnSave THEN <<typeNow, typeNow>> ELSE <<typeNow>>

\* a timer fires: lintDocument(event.document, true) up to its first await
\* past document.save()
TimeoutFires(t) ==
    /\ t \in armed
    /\ t.due = typeNow
    /\ armed' = armed \ {t}
    /\ running' = running \cup {[id |-> t.id, doc |-> t.doc]}
    /\ lintStarts' = [lintStarts EXCEPT ![t.doc] = @ \o lintsOfTimeout(t.doc)]
    /\ isDirty' = [isDirty EXCEPT ![t.doc] = FALSE]
    /\ UNCHANGED <<listeners, typeNow, handle, nextTimer, changes>>
    /\ UNCHANGED <<decodeVars, runVars, clockVars, provVars, corpusVars, lintVars, hoverVars, argVars>>
    /\ UNCHANGED <<workspaceVars, downloadVars>>

\* the lintDocument awaited by the callback settles; the listener with the
\* timeouts map then deletes the entry of the document
LintSettles(r) ==
    /\ r \in running
    /\ running' = running \ {r}
    /\ handle' = IF listeners.debounce = "timeouts"
                 THEN [handle EXCEPT ![r.doc] = NoTimer]
                 ELSE handle
    /\ UNCHANGED <<listeners, typeNow, armed, nextTimer, isDirty, changes, lintStarts>>
    /\ UNCHANGED <<decodeVars, runVars, clockVars, provVars, corpusVars, lintVars, hoverVars, argVars>>
    /\ UNCHANGED <<workspaceVars, downloadVars>>

\* half a second passes; a timer that is due fires before the clock moves on
TickType ==
    /\ typeNow < MaxTypeTicks
    /\ \A t \in armed : t.due > typeNow
    /\ typeNow' = typeNow + 1
    /\ UNCHANGED <<listeners, armed, handle, nextTimer, running, isDirty, changes, lintStarts>>
    /\ UNCHANGED <<decodeVars, runVars, clockVars, provVars, corpusVars, lintVars, hoverVars, argVars>>
    /\ UNCHANGED <<workspaceVars, downloadVars>>

TimerIds == 1..MaxTimers

Timers == [id : TimerIds, doc : Docs, due : 0..(MaxTypeTicks + DebounceTicks)]

Lints == [id : TimerIds, doc : Docs]

(***************************************************************************)
(* ApiLinterProvider.lintWorkspace: the loop over the files that           *)
(* findProtoFiles returned.  attempts are the files lintDocument was       *)
(* called on, outcomes how each of these calls ended.                      *)
(***************************************************************************)
MaxFiles == 3

ProtoFiles == {"a.proto", "b.proto", "c.proto"}

\* vscode.workspace.findFiles: each file once
FoundFiles ==
    {fs \in UNION {[1..n -> ProtoFiles] : n \in 0..MaxFiles} :
        \A i, j \in 1..Len(fs) : i # j => fs[i] # fs[j]}

WorkspaceIdle ==
    /\ found = <<>>
    /\ wsPc = "idle"
    /\ wsIndex = 0
    /\ attempts = <<>>
    /\ outcomes = <<>>

InitWorkspace ==
    /\ found \in FoundFiles
    /\ wsPc = "idle"
    /\ wsIndex = 0
    /\ attempts = <<>>
    /\ outcomes = <<>>

\* lintWorkspace up to the loop: without files it returns at once
LintWorkspace ==
    /\ wsPc = "idle"
    /\ wsPc' = IF Len(found) = 0 THEN "done" ELSE "open"
    /\ wsIndex' = IF Len(found) = 0 THEN 0 ELSE 1
    /\ UNCHANGED <<found, attempts, outcomes>>
    /\ UNCHANGED <<decodeVars, runVars, clockVars, provVars, corpusVars, lintVars, hoverVars, argVars>>
    /\ UNCHANGED <<typeVars, downloadVars>>

\* the loop goes on to the next file, or lintWorkspace completes
nextFile(i) == IF i < Len(found) THEN "open" ELSE "done"

\* await vscode.workspace.openTextDocument(fileUri), which is outside any
\* try: a rejection rejects lintWorkspace; then lintDocument(document) up to
\* its first await
OpenTextDocument ==
    /\ wsPc = "open"
    /\ \E ok \in BOOLEAN :
          IF ok
          THEN /\ wsPc' = "ensure"
               /\ attempts' = Append(attempts, found[wsIndex])
          ELSE /\ wsPc' = "rejected"
               /\ attempts' = attempts
    /\ UNCHANGED <<found, wsIndex, outcomes>>
    /\ UNCHANGED <<decodeVars, runVars, clockVars, provVars, corpusVars, lintVars, hoverVars, argVars>>
    /\ UNCHANGED <<typeVars, downloadVars>>

\* lintDocument: await ensureBinary settles; a rejection is caught, logged
\* and shown, and lintDocument returns
LintFileEnsureBinary ==
    /\ wsPc = "ensure"
    /\ \E ok \in BOOLEAN :
          IF ok
          THEN /\ wsPc' = "run"
               /\ UNCHANGED <<wsIndex, outcomes>>
          ELSE /\ outcomes' = Append(outcomes, "provisioningFailed")
               /\ wsPc' = nextFile(wsIndex)
               /\ wsIndex' = wsIndex + 1
    /\ UNCHANGED <<found, attempts>>
    /\ UNCHANGED <<decodeVars, runVars, clockVars, provVars, corpusVars, lintVars, hoverVars, argVars>>
    /\ UNCHANGED <<typeVars, downloadVars>>

\* how runLinter settles: it resolves with the diagnostics, resolves with
\* none after a decode failure, or rejects (spawn error, exit code)
LinterResults == {"diagnostics", "decodeFailed", "invocationFailed"}

\* lintDocument: await runLinter settles; a rejection is caught, and
\* lintDocument returns to the loop
LintFileRunLinter ==
    /\ wsPc = "run"
    /\ \E result \in LinterResults :
          outcomes' = Append(outcomes, result)
    /\ wsPc' = nextFile(wsIndex)
    /\ wsIndex' = wsIndex + 1
    /\ UNCHANGED <<found, attempts>>
    /\ UNCHANGED <<decodeVars, runVars, clockVars, provVars, corpusVars, lintVars, hoverVars, argVars>>
    /\ UNCHANGED <<typeVars, downloadVars>>

(***************************************************************************)
(* downloadFile of utils/httpClient: one request after another until a     *)
(* response is not a redirect.  server is what each URL answers; dlFile    *)
(* tells whether the destination holds the whole archive.                  *)
(***************************************************************************)
Urls == {"url", "cdn1", "cdn2"}

\* a response: a status code (301 and 302 are the redirects) and the
\* Location header, "" when there is none; "error" is the 'error' event of
\* the request
Responses ==
    [status : {"200", "404"}, location : {""}]
       \cup [status : {"301", "302"}, location : Urls \cup {""}]
       \cup {[status |-> "error", location |-> ""]}

DownloadIdle ==
    /\ server = [u \in Urls |-> [status |-> "200", location |-> ""]]
    /\ dlUrl = ""
    /\ dlPc = "idle"
    /\ dlFile = FALSE

\* downloadFile(url, dest, fs): createWriteStream(dest) and request(url)
InitDownloadFile ==
    /\ server \in [Urls -> Responses]
    /\ dlUrl = "url"
    /\ dlPc = "requested"
    /\ dlFile = FALSE

IsRedirect(response) == response.status \in {"301", "302"} /\ response.location # ""

\* the response callback: a 301 or 302 with a Location header, and
\* request(location) is called
FollowRedirect ==
    /\ dlPc = "requested"
    /\ IsRedirect(server[dlUrl])
    /\ dlUrl' = server[dlUrl].location
    /\ UNCHANGED <<server, dlPc, dlFile>>
    /\ UNCHANGED <<decodeVars, runVars, clockVars, provVars, corpusVars, lintVars, hoverVars, argVars>>
    /\ UNCHANGED <<typeVars, workspaceVars>>

\* the response callback: a status other than 200 (a redirect without
\* Location among them), and the promise is rejected
RejectStatus ==
    /\ dlPc = "requested"
    /\ server[dlUrl].status \notin {"200", "error"}
    /\ ~IsRedirect(server[dlUrl])
    /\ dlPc' = "rejected"
    /\ UNCHANGED <<server, dlUrl, dlFile>>
    /\ UNCHANGED <<decodeVars, runVars, clockVars, provVars, corpusVars, lintVars, hoverVars, argVars>>
    /\ UNCHANGED <<typeVars, workspaceVars>>

\* the response callback: status 200, response.pipe(file)
PipeResponse ==
    /\ dlPc = "requested"
    /\ server[dlUrl].status = "200"
    /\ dlPc' = "piping"
    /\ UNCHANGED <<server, dlUrl, dlFile>>
    /\ UNCHANGED <<decodeVars, runVars, clockVars, provVars, corpusVars, lintVars, hoverVars, argVars>>
    /\ UNCHANGED <<typeVars, workspaceVars>>

\* the 'finish' event of the file: file.close() and resolve()
FileFinish ==
    /\ dlPc = "piping"
    /\ dlPc' = "resolved"
    /\ dlFile' = TRUE
    /\ UNCHANGED <<server, dlUrl>>
    /\ UNCHANGED <<decodeVars, runVars, clockVars, provVars, corpusVars, lintVars, hoverVars, argVars>>
    /\ UNCHANGED <<typeVars, workspaceVars>>

\* the 'error' event of the request: fs.unlink(dest) and reject(err)
RequestError ==
    /\ dlPc = "requested"
    /\ server[dlUrl].status = "error"
    /\ dlPc' = "rejected"
    /\ dlFile' = FALSE
    /\ UNCHANGED <<server, dlUrl>>
    /\ UNCHANGED <<decodeVars, runVars, clockVars, provVars, corpusVars, lintVars, hoverVars, argVars>>
    /\ UNCHANGED <<typeVars, workspaceVars>>

ExtensionIdle == TypeIdle /\ WorkspaceIdle /\ DownloadIdle

EditorIdle == LintIdle /\ HoverIdle /\ ArgsIdle /\ ExtensionIdle

(***************************************************************************)
(* Specifications.                                                         *)
(***************************************************************************)
NoAsset == asset = "none" /\ now = 0

NextDecode == Decode \/ DecodePlain

InitDecodeOnly == InitDecode /\ RunnerIdle /\ NoAsset /\ ProvisionerIdle /\ CorpusIdle /\ EditorIdle

\* the decoder on the payloads the tool prints
SpecDecode == InitDecodeOnly /\ [][NextDecode]_vars

InitNoiseOnly == InitNoise /\ RunnerIdle /\ NoAsset /\ ProvisionerIdle /\ CorpusIdle /\ EditorIdle

\* the decoder on payloads with other text around them
SpecNoise == InitNoiseOnly /\ [][NextDecode]_vars

NextRun == Spawn \/ OnData \/ OnError \/ OnClose

InitRun == DecoderIdle /\ RunnerIdle /\ NoAsset /\ ProvisionerIdle /\ CorpusIdle /\ EditorIdle

\* the process runner
SpecRun == InitRun /\ [][NextRun]_vars

\* the interval that governs the asset under provisioning
AssetInterval == IF asset = "corpus" THEN thirtyDays ELSE CheckInterval(variant)

\* the clock advances
Tick ==
    /\ \E t \in TimePoints(AssetInterval) : t > now /\ now' = t
    /\ UNCHANGED <<asset, decodeVars, runVars, provVars, corpusVars, editorVars>>

InitProvision ==
    /\ EditorIdle
    /\ DecoderIdle
    /\ RunnerIdle
    /\ now = 0
    /\ \/ asset = "executable" /\ InitEnsure /\ CorpusIdle
       \/ asset = "corpus" /\ ProvisionerIdle /\ InitCorpus

\* one asset is provisioned, by one call after another
NextProvision == Tick \/ Publish \/ EnsureStep("c1") \/ CorpusStep

\* the provisioner, one call at a time
SpecProvision == InitProvision /\ [][NextProvision]_vars

\* lint requests for one document, interleaved, with saves in between
InitLint ==
    /\ DecoderIdle /\ RunnerIdle /\ NoAsset /\ ProvisionerIdle /\ CorpusIdle
    /\ InitLintRequests /\ HoverIdle /\ ArgsIdle /\ ExtensionIdle

NextLint == SaveDocument \/ (\E r \in Requests : LintStep(r))

SpecLint == InitLint /\ [][NextLint]_vars

\* hover requests, interleaved
InitHover ==
    DecoderIdle /\ RunnerIdle /\ NoAsset /\ ProvisionerIdle /\ CorpusIdle /\ EditorIdle

NextHover == \E h \in Hovers : HoverStep(h)

SpecHover == InitHover /\ [][NextHover]_vars

\* buildLinterArgs on every input
InitArgsOnly ==
    /\ DecoderIdle /\ RunnerIdle /\ NoAsset /\ ProvisionerIdle /\ CorpusIdle
    /\ LintIdle /\ HoverIdle /\ InitArgs /\ ExtensionIdle

\* typing in two documents with linting on type enabled
InitTyping ==
    /\ DecoderIdle /\ RunnerIdle /\ NoAsset /\ ProvisionerIdle /\ CorpusIdle
    /\ LintIdle /\ HoverIdle /\ ArgsIdle /\ InitType /\ WorkspaceIdle /\ DownloadIdle

NextTyping ==
    \/ TickType
    \/ \E d \in Docs : ChangeTextDocument(d)
    \/ \E t \in Timers : TimeoutFires(t)
    \/ \E r \in Lints : LintSettles(r)

SpecTyping == InitTyping /\ [][NextTyping]_vars

\* the command that lints the workspace
InitLintWorkspace ==
    /\ DecoderIdle /\ RunnerIdle /\ NoAsset /\ ProvisionerIdle /\ CorpusIdle
    /\ LintIdle /\ HoverIdle /\ ArgsIdle /\ TypeIdle /\ InitWorkspace /\ DownloadIdle

NextWorkspace ==
    \/ LintWorkspace
    \/ OpenTextDocument
    \/ LintFileEnsureBinary
    \/ LintFileRunLinter

SpecWorkspace == InitLintWorkspace /\ [][NextWorkspace]_vars

\* one call of downloadFile against a server
InitDownload ==
    /\ DecoderIdle /\ RunnerIdle /\ NoAsset /\ ProvisionerIdle /\ CorpusIdle
    /\ LintIdle /\ HoverIdle /\ ArgsIdle /\ TypeIdle /\ WorkspaceIdle /\ InitDownloadFile

NextDownload ==
    \/ FollowRedirect
    \/ RejectStatus
    \/ PipeResponse
    \/ FileFinish
    \/ RequestError

SpecDownload == InitDownload /\ [][NextDownload]_vars

\* every request is answered and every event is delivered
SpecDownloadFair == SpecDownload /\ WF_vars(NextDownload)

NextArgs == BuildLinterArgs

SpecArgs == InitArgsOnly /\ [][NextArgs]_vars

\* two calls of ensureBinary under way at once (activation and a lint
\* request, or two lint requests): the managed directory exists, no custom
\* path, the release v2 is out
InitOverlap ==
    /\ EditorIdle
    /\ DecoderIdle
    /\ RunnerIdle
    /\ CorpusIdle
    /\ asset = "executable"
    /\ now = 0
    /\ variant \in Variants
    /\ customPath = ""
    /\ gapiDir = TRUE
    /\ binary \in {"absent", "v1"}
    /\ archive = "absent"
    /\ metaFile \in {MetaMissing, MetaRecord("v1", 0)}
    /\ latest = "v2"
    /\ call = [c \in Calls |-> NewCall]
    /\ declined = NeverDeclined
    /\ maxChecked = RecordedLastChecked(metaFile)

\* the clock advances while the two calls run: a few seconds, far from the
\* check interval
MaxOverlapTime == 1

TickOverlap ==
    /\ now < MaxOverlapTime
    /\ now' = now + 1
    /\ UNCHANGED <<asset, decodeVars, runVars, provVars, corpusVars, editorVars>>

NextOverlap == TickOverlap \/ EnsureStep("c1") \/ EnsureStep("c2")

\* the provisioner of the executable, two calls interleaved step by step
SpecOverlap == InitOverlap /\ [][NextOverlap]_vars

(***************************************************************************)
(* Properties.                                                             *)
(***************************************************************************)
CustomConfigured == asset = "executable" /\ getCustomBinaryPath(customPath) # ""

\* C1: with a custom executable path configured, every step leaves the
\* executable, the archive and the metadata file as they are, no call waits
\* on the network, the file system or the user, and a call that has returned
\* returned exactly the configured path, after zero network calls, downloads,
\* extractions, prompts and metadata writes.
C1_CustomPathShortCircuits ==
    [][CustomConfigured =>
         /\ disk' = disk
         /\ \A c \in Calls :
               /\ call'[c].pc \in {"idle", "done"}
               /\ call'[c].pc = "done" =>
                     /\ call'[c].result = customPath
                     /\ call'[c].net = 0
                     /\ call'[c].downloads = 0
                     /\ call'[c].extracts = 0
                     /\ call'[c].prompts = 0
                     /\ call'[c].metaWrites = 0]_vars

\* the freshness condition on the metadata file alone
DueByMetadata(m, t, interval) ==
    \/ m.kind \in {"missing", "corrupt"}
    \/ m.kind = "json" /\ m.hasTime /\ t - m.lastChecked > interval

ExecutableChecked(c) == asset = "executable" /\ call[c].pc = "check" /\ call'[c] # call[c]

CorpusChecked ==
    asset = "corpus" /\ corpusCall.pc \in {"idle", "done", "failed"} /\ corpusCall' # corpusCall

\* C2 as stated: the freshness check of an asset (the executable, a corpus)
\* reports due if and only if the metadata file is missing or unparsable or
\* now - lastChecked exceeds the interval; the check never raises.
C2_DueIffMetadataStale ==
    [][/\ \A c \in Calls :
             ExecutableChecked(c) =>
                /\ call'[c].pc \in {"latest", "done"}
                /\ (call'[c].due = "due")
                      <=> DueByMetadata(metaFile, now, CheckInterval(variant))
       /\ CorpusChecked =>
             /\ corpusCall'.pc \in {"zip", "done"}
             /\ (corpusCall'.due = "due") <=> DueByMetadata(corpusMeta, now, thirtyDays)]_vars

\* C2 amended: the same, and the check of a corpus also reports due when the
\* corpus directory is absent.
C2_DueIffStaleOrCorpusAbsent ==
    [][/\ \A c \in Calls :
             ExecutableChecked(c) =>
                /\ call'[c].pc \in {"latest", "done"}
                /\ (call'[c].due = "due")
                      <=> DueByMetadata(metaFile, now, CheckInterval(variant))
       /\ CorpusChecked =>
             /\ corpusCall'.pc \in {"zip", "done"}
             /\ (corpusCall'.due = "due")
                   <=> (corpusDir = "absent" \/ DueByMetadata(corpusMeta, now, thirtyDays))]_vars

\* the check of the executable answered not due with lastChecked exactly one
\* interval old
C2_Witness ==
    /\ asset = "executable"
    /\ call["c1"].pc = "done"
    /\ call["c1"].due = "notDue"
    /\ metaFile.kind = "json" /\ metaFile.hasTime
    /\ now - metaFile.lastChecked = CheckInterval(variant)

RECURSIVE ReportedProblems(_)
\* the problem entries of a payload, in the order of groups and problems
ReportedProblems(groups) ==
    IF groups = <<>> THEN <<>> ELSE Head(groups).problems \o ReportedProblems(Tail(groups))

ZeroIndexed(n) == IF n >= 1 THEN n - 1 ELSE 0

ExpectedDiagnostics(groups) ==
    [i \in 1..Len(ReportedProblems(groups)) |->
        [startLine |-> ZeroIndexed(ReportedProblems(groups)[i].sl),
         startChar |-> ZeroIndexed(ReportedProblems(groups)[i].sc),
         endLine |-> ZeroIndexed(ReportedProblems(groups)[i].el),
         endChar |-> ZeroIndexed(ReportedProblems(groups)[i].ec)]]

\* C3: for a payload that is a valid array of result groups the decoder
\* returns one diagnostic per problem entry, in order, each coordinate being
\* max(0, reported - 1) on its own, and does not raise.
C3_OneDiagnosticPerProblem ==
    (decodeOut.by # "none" /\ payload.present /\ IsValidPayload(payload.groups)) =>
        /\ decodeOut.diagnostics = ExpectedDiagnostics(payload.groups)
        /\ ~decodeOut.raised

\* two groups, the first with an empty problem list, the second with two
\* problems of which the second has line 0 and a positive column
C3_Witness ==
    /\ decodeOut.by = "extract"
    /\ payload.present /\ IsValidPayload(payload.groups)
    /\ Len(payload.groups) = 2
    /\ payload.groups[1] = Group(TRUE, <<>>)
    /\ payload.groups[2].problems = <<Prob(1, 0, 0, 4), Prob(0, 3, 2, 1)>>
    /\ Len(decodeOut.diagnostics) = 2
    /\ decodeOut.diagnostics[2].startLine = 0
    /\ decodeOut.diagnostics[2].startChar = 2

\* C4: for a valid array A and text P before and S after it, the decoder
\* returns for P + A + S the diagnostics it returns for A.
C4_NoiseAroundArrayIgnored ==
    (decodeOut.by # "none" /\ payload.present /\ IsValidPayload(payload.groups)) =>
        decodeOut.diagnostics = parseLinterOutput(bodyText).diagnostics

HasKind(s, k) == \E i \in 1..Len(s) : s[i].kind = k

\* the text is empty, whitespace only, without "[", without "]", or its
\* last "]" precedes its first "["
NoBracketPair(s) ==
    \/ \A i \in 1..Len(s) : IsWs(s[i])
    \/ ~HasKind(s, "[")
    \/ ~HasKind(s, "]")
    \/ \A i, j \in 1..Len(s) : (s[i].kind = "[" /\ s[j].kind = "]") => j < i

\* C5: on the empty string, a whitespace-only string, a string without "[",
\* without "]", or whose last "]" precedes its first "[", the decoder
\* returns the empty sequence and does not raise.
C5_NoBracketPairIsEmpty ==
    (decodeOut.by # "none" /\ NoBracketPair(stdoutText)) =>
        /\ decodeOut.diagnostics = <<>>
        /\ ~decodeOut.raised

\* decoded: a text whose "]" precedes its "["
C5_Witness ==
    /\ decodeOut.by = "extract"
    /\ ~payload.present
    /\ noiseBefore = <<Ch("]"), Ch("x")>>
    /\ noiseAfter = <<Ch("["), Ch("ws")>>
    /\ decodeOut.diagnostics = <<>>

\* C6: when the bracketed substring does not parse, or parses but is not of
\* the expected structure, the decoder returns the empty sequence and does
\* not raise.
C6_DecodeErrorYieldsNothing ==
    (decodeOut.by = "extract" /\ decodeOut.logged) =>
        /\ decodeOut.diagnostics = <<>>
        /\ ~decodeOut.raised

IsSuccessCode(code) == ~code.null /\ code.n \in {0, 1}

\* C7: when the 'close' event settles the call, exit codes 0 and 1 resolve it
\* with the diagnostics decoded from stdout, and every other exit status
\* (2 and above, no code) rejects it without diagnostics.
C7_ExitZeroAndOneSucceed ==
    (runPc = "closed" /\ runErrno = "none") =>
        IF IsSuccessCode(closeCode)
        THEN /\ runResult.state = "resolved"
             /\ runResult.diagnostics =
                   importedParseLinterOutput(runDecoder, stdoutBuf).diagnostics
        ELSE /\ runResult.state = "rejected"
             /\ runResult.error = "exited"
             /\ runResult.diagnostics = <<>>

\* exit code 1 with a problem on stdout: resolved with its diagnostic
C7_Witness ==
    /\ runPc = "closed"
    /\ runErrno = "none"
    /\ closeCode = ExitCode(1)
    /\ runDecoder = "plain"
    /\ stdoutBuf = PayloadText(<<Group(TRUE, <<Prob(3, 0, 4, 1)>>)>>)
    /\ runResult.state = "resolved"
    /\ Len(runResult.diagnostics) = 1

\* C8: when the operating system reports the path as missing or as not
\* executable, the call fails with the 'binary not found' error that names
\* the path.
C8_MissingOrNotExecutableIsDistinct ==
    runErrno \in {"ENOENT", "EACCES"} =>
        /\ runResult.state = "rejected"
        /\ runResult.error = "binaryNotFound"
        /\ runResult.path = runPath

\* C9: a call that returned the install path left the executable present; a
\* call downloads at most once; a call that found the executable absent and
\* returned has downloaded and extracted once and the executable is whole.
C9_AbsentExecutableSelfHeals ==
    asset = "executable" =>
        \A c \in Calls :
            /\ call[c].downloads <= 1
            /\ call[c].extracts <= 1
            /\ (call[c].pc = "done" /\ call[c].result = BINARY_PATH) => binary # "absent"
            /\ (call[c].pc = "done" /\ call[c].sawAbsent) =>
                  /\ call[c].result = BINARY_PATH
                  /\ call[c].downloads = 1
                  /\ call[c].extracts = 1
                  /\ binary \in Versions

\* the metadata file still records v1 from before, the executable was absent
\* and the call has downloaded and installed v2
C9_Witness ==
    /\ asset = "executable"
    /\ call["c1"].pc = "metaOpen"
    /\ call["c1"].sawAbsent
    /\ call["c1"].downloads = 1
    /\ metaFile = MetaRecord("v1", 0)
    /\ binary = "v2"

\* C10: in an update check a download starts, and the executable is
\* replaced, only after the user chose 'Update Now'.
C10_UpdateOnlyAfterUpdateNow ==
    asset = "executable" =>
        \A c \in Calls :
            (call[c].fromCheck /\ (call[c].downloads > 0 \/ call[c].extracts > 0))
                => call[c].answer = "Update Now"

Declined == declined.at >= 0

\* the interval since the last declined update has not elapsed
DeclinedRecently == Declined /\ now - declined.at <= CheckInterval(variant)

C12_OnlyArchiveDeletionIsSwallowed ==
    [][\A c \in Calls :
          ~call[c].fromCheck =>
             /\ (call[c].pc \in {"release", "download"} /\ call'[c].pc \notin {"release", "download", "extract"})
                   => call'[c].pc = "failed"
             /\ (call[c].pc = "chmod" /\ call'[c].unlink = "failed")
                   => call'[c].pc = "metaOpen"]_vars

\* C14: no step of a corpus refresh takes the corpus directory from a
\* complete copy (the old one or the new one) to anything else.
C14_CorpusAlwaysComplete ==
    [][(corpusDir \in {"old", "new"}) => (corpusDir' \in {"old", "new"})]_vars

\* a step of the call c that reads the metadata file (shouldCheckForUpdate,
\* getCurrentVersion, getMetadata)
ReadsMetadata(c) ==
    /\ call[c].pc \in {"check", "current"}
    /\ call'[c] # call[c]

\* C13: whatever the interleaving of two calls of ensureBinary, a call that
\* reads the metadata file reads a whole record (or finds no file), never a
\* file whose write is under way.
C13_ReadersSeeWholeMetadata ==
    [][\A c \in Calls : ReadsMetadata(c) => metaFile # MetaCorrupt]_vars

\* the call c returns the install path in this step
ReturnsInstallPath(c) ==
    /\ call[c].pc # "done"
    /\ call'[c].pc = "done"
    /\ call'[c].result = BINARY_PATH

\* C15: when two calls of ensureBinary overlap, none returns the install path
\* while the extraction of the other is writing the executable.
C15_NoReturnDuringExtraction ==
    [][\A c \in Calls, d \in Calls :
          (c # d /\ ReturnsInstallPath(c)) =>
             ~(call[d].pc = "extracting" /\ binary = "partial")]_vars

\* C16: over calls of ensureBinary, overlapping ones included, the time of
\* the last check stored in the metadata file never decreases: a whole record
\* holds the latest time any completed write has recorded.
C16_LastCheckedNeverDecreases ==
    (MetaReadable(metaFile) /\ metaFile.hasTime) => metaFile.lastChecked >= maxChecked

\* C17: the diagnostics shown for a document come from the latest lint
\* request that has completed: once a request has set them, the result of a
\* request issued before it is discarded.
C17_LatestRequestWins ==
    \A r \in Requests : lintReq[r].pc = "done" => displayed.by >= r

\* the hover request h fetches nothing: it is answered in the step that
\* begins it
AnsweredFromCache(h) ==
    /\ hover[h].pc = "idle"
    /\ hover'[h].pc = "done"
    /\ hover'[h].source = "cache"
    /\ fetches' = fetches

\* C18: a request for the guidance of a rule URI made after an earlier request
\* for the same URI completed its fetch issues no fetch of its own and is
\* answered with the body that request returned.
C18_SecondRequestServedFromCache ==
    [][\A h \in Hovers, ruleUri \in Uris :
          (hover[h].pc = "idle" /\ hover'[h].pc # "idle" /\ hover'[h].uri = ruleUri
           /\ guidanceCache[ruleUri].has)
          => /\ AnsweredFromCache(h)
             /\ hover[guidanceCache[ruleUri].by].pc = "done"
             /\ hover[guidanceCache[ruleUri].by].source = "page"
             /\ hover[guidanceCache[ruleUri].by].uri = ruleUri
             /\ hover'[h].guidance = hover[guidanceCache[ruleUri].by].guidance]_vars

\* two requests for u1, the second after the first: one fetch, equal bodies
C18_Witness ==
    /\ hover[1].pc = "done" /\ hover[1].uri = "u1" /\ hover[1].source = "page"
    /\ hover[2].pc = "done" /\ hover[2].uri = "u1" /\ hover[2].source = "cache"
    /\ hover[2].guidance = hover[1].guidance
    /\ hover[1].guidance # Placeholder
    /\ fetches["u1"] = 1

\* C19: fetchRuleGuidance always returns: after a failed fetch, and for a page
\* without a Details paragraph and without an Examples section, it returns
\* the placeholder, and the hover holds the rule header and the message
\* whatever the guidance.
C19_GuidanceFallsBackToPlaceholder ==
    \A h \in Hovers :
       /\ hover[h].pc \in {"fetching", "done"} =>
             /\ Len(hover[h].markdown) >= 2
             /\ SubSeq(hover[h].markdown, 1, 2) = HoverHead(hover[h].uri)
       /\ (hover[h].pc = "done" /\ hover[h].uri # "") =>
             /\ hover[h].guidance # <<>>
             /\ hover[h].markdown = HoverHead(hover[h].uri) \o HoverTail(hover[h].guidance)
             /\ hover[h].source = "error" => hover[h].guidance = Placeholder
             /\ (hover[h].source = "page" /\ hover[h].page = NoPage)
                   => hover[h].guidance = Placeholder

\* one hover after a failed fetch, one after a page without either section
C19_Witness ==
    /\ hover[1].pc = "done" /\ hover[1].source = "error"
    /\ hover[2].pc = "done" /\ hover[2].source = "page" /\ hover[2].page = NoPage
    /\ hover[2].guidance = Placeholder

\* v is the value of a --proto-path flag in args
IsProtoPathValue(args, v) ==
    \E i \in 1..(Len(args) - 1) : args[i] = "--proto-path" /\ args[i + 1] = v

Occurs(args, v) == \E i \in 1..Len(args) : args[i] = v

\* C20: the arguments built hold the file's directory and every configured
\* import path that exists as values of --proto-path, and hold no configured
\* import path that does not exist.
C20_OnlyExistingImportPaths ==
    argOut.built =>
       /\ IsProtoPathValue(argOut.args, workingDir)
       /\ \A i \in 1..Len(argIn.protoPath) :
             LET configured == argIn.protoPath[i]
                 resolved == resolveWorkspaceVariables(configured, argIn.hasWorkspace)
             IN  IF existsSync(argIn, resolved)
                 THEN IsProtoPathValue(argOut.args, resolved)
                 ELSE ~Occurs(argOut.args, configured) /\ ~Occurs(argOut.args, resolved)

\* the values that follow the flag in args, in order
RECURSIVE valuesOf(_, _)
valuesOf(flag, args) ==
    IF Len(args) < 2 THEN <<>>
    ELSE IF args[1] = flag THEN <<args[2]>> \o valuesOf(flag, SubSeq(args, 3, Len(args)))
    ELSE valuesOf(flag, Tail(args))

\* the configured import paths that exist, resolved, in the configured order
RECURSIVE existingImportPaths(_, _)
existingImportPaths(list, o) ==
    IF list = <<>> THEN <<>>
    ELSE (IF existsSync(o, resolveWorkspaceVariables(Head(list), o.hasWorkspace))
          THEN <<resolveWorkspaceVariables(Head(list), o.hasWorkspace)>> ELSE <<>>)
         \o existingImportPaths(Tail(list), o)

\* the corpus directories found: the workspace's, then the user's
corpusDirectories(o) ==
    (IF o.hasWorkspace /\ existsSync(o, workspaceGapiDir) THEN <<workspaceGapiDir>> ELSE <<>>)
    \o (IF existsSync(o, homeGapiDir) THEN <<homeGapiDir>> ELSE <<>>)

\* C21: the values of --proto-path are, in this order, the directory of the
\* file, the workspace's corpus directory if it exists, the user's corpus
\* directory if it exists, and the existing configured import paths in the
\* configured order (the workspace folder itself, which the code may add, is
\* left out of the comparison).
C21_ProtoPathOrder ==
    argOut.built =>
       SelectSeq(valuesOf("--proto-path", argOut.args), LAMBDA v : v # workspaceRoot)
          = <<workingDir>> \o corpusDirectories(argIn)
            \o existingImportPaths(argIn.protoPath, argIn)

\* the configured strings that hold a placeholder
configuredWithPlaceholder(o) ==
    {o.protoPath[i] : i \in 1..Len(o.protoPath)} \cap {p \in ConfiguredPaths : HasPlaceholder(p)}

\* C22: a configured config file or import path with a workspace placeholder
\* is resolved against the workspace folder before it is tested for
\* existence, and no argument holds the text of a placeholder.
C22_NoLiteralPlaceholder ==
    argOut.built =>
       /\ \A i \in 1..Len(argOut.args) : ~HasPlaceholder(argOut.args[i])
       /\ \A p \in configuredWithPlaceholder(argIn) :
             (argIn.hasWorkspace /\ existsSync(argIn, resolveWorkspaceVariables(p, TRUE)))
                => IsProtoPathValue(argOut.args, resolveWorkspaceVariables(p, TRUE))
       /\ (HasPlaceholder(argIn.configPath) /\ argIn.hasWorkspace
           /\ existsSync(argIn, resolveWorkspaceVariables(argIn.configPath, TRUE)))
             => valuesOf("--config", argOut.args)
                   = <<resolveWorkspaceVariables(argIn.configPath, TRUE)>>

\* C23: the arguments of the spawned process end with --output-format, json
\* and the base name of the file, and its working directory is the directory
\* of the file.
C23_EndsWithFormatAndFile ==
    argOut.built =>
       /\ Len(argOut.args) >= 3
       /\ SubSeq(argOut.args, Len(argOut.args) - 2, Len(argOut.args))
             = <<"--output-format", "json", fileName>>
       /\ argOut.cwd = workingDir

\* C24: one --disable-rule, --enable-rule and --descriptor-set-in pair per
\* configured value, each boolean flag exactly when its option is true, and
\* --config exactly when the config path is set and resolves to a file that
\* exists.
C24_OneFlagPerOption ==
    argOut.built =>
       /\ valuesOf("--disable-rule", argOut.args) = argIn.disableRules
       /\ valuesOf("--enable-rule", argOut.args) = argIn.enableRules
       /\ valuesOf("--descriptor-set-in", argOut.args) = argIn.descriptorSetIn
       /\ Occurs(argOut.args, "--ignore-comment-disables") <=> argIn.ignoreCommentDisables
       /\ Occurs(argOut.args, "--set-exit-status") <=> argIn.setExitStatus
       /\ Occurs(argOut.args, "--config")
             <=> /\ argIn.configPath # ""
                 /\ existsSync(argIn, resolveWorkspaceVariables(argIn.configPath,
                                                                argIn.hasWorkspace))

\* C25: no directory is the value of --proto-path more than once.
C25_NoDuplicateProtoPath ==
    argOut.built =>
       LET values == valuesOf("--proto-path", argOut.args)
       IN  \A i \in 1..Len(values), j \in 1..Len(values) : values[i] = values[j] => i = j

\* how many times the message was shown
TimesShown(message) == Cardinality({i \in 1..Len(shown) : shown[i] = message})

\* C26: while one provisioning or invocation failure persists, the lint
\* attempts that fail on it do not each show the same error message: the
\* message of that condition has been shown at most once
C26_OneMessagePerCondition ==
    outage # "none" => TimesShown(ErrorMessage(outage)) <= 1

\* C27: the update check of the executable runs at most once per 10 days: an
\* ensureBinary call that finds the executable present and a lastChecked less
\* than 10 days old returns without a version lookup and without a prompt
C27_NoLookupWithinTenDays ==
    [][\A c \in Calls :
          (/\ ExecutableChecked(c)
           /\ metaFile.kind = "json" /\ metaFile.hasTime
           /\ now - metaFile.lastChecked < CHECK_INTERVAL)
          => (/\ call'[c].pc = "done"
              /\ call'[c].net = call[c].net
              /\ call'[c].prompts = call[c].prompts)]_vars

\* a change event is the last of its burst when the next one comes a second
\* or more later, and the first when the one before came a second or more
\* earlier
IsLastOfBurst(cs, j) == j = Len(cs) \/ cs[j + 1] - cs[j] >= DebounceTicks

IsFirstOfBurst(cs, i) == i = 1 \/ cs[i] - cs[i - 1] >= DebounceTicks

FirstOfBurst(cs, j) ==
    CHOOSE i \in 1..j :
       IsFirstOfBurst(cs, i) /\ \A k \in (i + 1)..j : ~IsFirstOfBurst(cs, k)

LintsAt(d, t) == Cardinality({k \in 1..Len(lintStarts[d]) : lintStarts[d][k] = t})

\* C28: with linting on type enabled, a burst of change events on one
\* document, consecutive events less than a second apart, triggers exactly
\* one lint of that document, started one second after the last event of the
\* burst: once that moment has passed, one lint of the document started then
\* and none started earlier in the burst
C28_OneLintPerBurst ==
    \A d \in Docs : \A j \in 1..Len(changes[d]) :
       (IsLastOfBurst(changes[d], j) /\ typeNow > changes[d][j] + DebounceTicks)
       => /\ LintsAt(d, changes[d][j] + DebounceTicks) = 1
          /\ \A t \in (changes[d][FirstOfBurst(changes[d], j)] + 1)
                       ..(changes[d][j] + DebounceTicks - 1) : LintsAt(d, t) = 0

\* C29: every network failure during a corpus download (on the first
\* request, on the redirected request, before the destination file exists)
\* rejects the promise of ensureGoogleapis; no exception leaves an event
\* handler outside that promise and no call is left unsettled
C29_DownloadFailuresReject ==
    ~corpusCall.escaped /\ corpusCall.pc # "hung"

\* C30: lintWorkspace attempts every proto file found in the workspace
\* exactly once, in order, and then completes: the files attempted so far are
\* the first files found, lintWorkspace is never rejected, and when it has
\* completed every file found was attempted
C30_EveryFileAttempted ==
    /\ wsPc # "rejected"
    /\ Len(attempts) <= Len(found)
    /\ attempts = SubSeq(found, 1, Len(attempts))
    /\ wsPc = "done" => attempts = found

\* the failures of lintDocument stay inside it: after a provisioning, an
\* invocation or a decode failure the loop is at the next file or complete
LintFailuresContained ==
    (Len(outcomes) > 0 /\ wsPc \in {"open", "done"})
    => /\ Len(outcomes) = Len(attempts)
       /\ wsPc = "done" <=> Len(attempts) = Len(found)

\* the steps of downloadBinary before updateMetadata: version resolution,
\* download, extraction, chmod and the removal of the archive
InstallPcs == {"release", "download", "extract", "extracting", "chmod"}

\* the call found no executable and installs one
FullInstall(c) == call[c].sawAbsent /\ call'[c] # call[c]

\* C31: in a full install the metadata of the executable is written only
\* after the archive was downloaded, extracted and made executable: no step
\* before updateMetadata changes the metadata file, whether it succeeds or
\* fails, the file changes only after a download and an extraction, and the
\* version written is the version of the executable installed
C31_MetadataAfterInstall ==
    [][\A c \in Calls :
          FullInstall(c) =>
             /\ call[c].pc \in InstallPcs => metaFile' = metaFile
             /\ metaFile' # metaFile =>
                   /\ call[c].pc \in {"metaOpen", "metaWrite"}
                   /\ call[c].downloads >= 1 /\ call[c].extracts >= 1
                   /\ binary \in Versions
             /\ call[c].pc = "metaWrite" =>
                   /\ metaFile'.kind = "json"
                   /\ metaFile'.version = binary
                   /\ metaFile'.version = call[c].version]_vars

\* a full install has completed over a metadata file that recorded another
\* version
C31_Witness ==
    /\ call["c1"].pc = "done" /\ call["c1"].sawAbsent
    /\ call["c1"].metaWrites = 1 /\ call["c1"].extracts = 1
    /\ binary = "v2" /\ metaFile.kind = "json" /\ metaFile.version = "v2"
    /\ declined = NeverDeclined

\* C32: a successful corpus refresh moves the single top-level directory of
\* the archive, whatever its name, to the corpus directory and leaves neither
\* the temporary directory nor the archive behind, and the corpus metadata is
\* written only after the move: a refresh that completes leaves the new
\* corpus and nothing else, the move fails only when the file system refuses
\* it, and the metadata changes only with the new corpus in place
C32_RefreshMovesAndCleansUp ==
    [][/\ (corpusCall.pc = "metaWrite" /\ corpusCall'.pc = "done")
            => (corpusDir' = "new" /\ corpusTemp' = "absent" /\ ~corpusZip')
       /\ (corpusCall.pc = "rename" /\ corpusCall'.pc = "failed") => corpusCall'.refused
       /\ corpusMeta' # corpusMeta
            => (corpusCall.pc \in {"metaOpen", "metaWrite"} /\ corpusDir = "new")]_vars

\* C33: downloadFile terminates for every behaviour of the server: after a
\* bounded number of redirects the promise is resolved or rejected
C33_DownloadFileSettles ==
    <>(dlPc \in {"resolved", "rejected"})

\* the last step of an update check in which the user chose 'Update Now' and
\* the download, the extraction and the writes of the metadata succeeded
UpdateCompleted(c) ==
    /\ call[c].pc = "metaWrite" /\ call'[c].pc = "done"
    /\ call[c].fromCheck /\ call[c].answer = "Update Now"

\* C34: after an update check in which the user chooses 'Update Now' and the
\* download succeeds, the metadata persisted records the latest version, the
\* one just installed
C34_UpdateRecordsLatest ==
    [][\A c \in Calls :
          UpdateCompleted(c) =>
             /\ metaFile'.kind = "json"
             /\ metaFile'.version = call[c].latestVersion]_vars

\* a metadata file that parses as JSON and has no numeric lastChecked
NoLastChecked(m) == m.kind = "json" /\ ~m.hasTime

\* C35: a metadata file that parses as JSON but carries no numeric
\* lastChecked (for example {}) is treated like a corrupt file: the freshness
\* check of the executable and of a corpus reports due
C35_NoLastCheckedIsDue ==
    [][/\ \A c \in Calls :
             (ExecutableChecked(c) /\ NoLastChecked(metaFile)) => call'[c].due = "due"
       /\ (CorpusChecked /\ NoLastChecked(corpusMeta)) => corpusCall'.due = "due"]_vars

\* a due update check of the call ends in the version lookup (that of
\* checkAndUpdate or that of downloadBinary) or in the download
UpdateCheckFails(c) ==
    /\ call[c].fromCheck
    /\ call[c].pc \in {"latest", "release", "download"}
    /\ call'[c].pc \in {"done", "failed"}

\* C36: when the executable is installed and a due update check fails in
\* the version lookup or in the download, ensureBinary still returns the
\* install path, the executable and the metadata file are as they were
\* before the call, and the check is due again at the next call
C36_FailedCheckChangesNothing ==
    [][\A c \in Calls :
          (UpdateCheckFails(c) /\ binary \in Versions) =>
             /\ call'[c].pc = "done" /\ call'[c].result = BINARY_PATH
             /\ binary' = binary
             /\ metaFile' = metaFile
             /\ call[c].metaWrites = 0 /\ call[c].extracts = 0
             /\ shouldCheckForUpdate(metaFile', now', CheckInterval(variant))]_vars

\* a due update check has failed in the download and the call has returned
C36_Witness ==
    /\ call["c1"].pc = "done" /\ call["c1"].fromCheck /\ call["c1"].due = "due"
    /\ call["c1"].downloads = 1 /\ call["c1"].extracts = 0 /\ call["c1"].metaWrites = 0
    /\ call["c1"].result = BINARY_PATH
    /\ binary = "v1" /\ metaFile = MetaRecord("v1", 0)

\* C37: each runLinter invocation settles its result once: whatever the
\* order and number of the 'error' and 'close' events, a settled result never
\* changes in the invocation, and after an 'error' event the result is the
\* rejection of the first one, also when a 'close' event with a successful
\* exit code follows
C37_SettlesOnce ==
    [][/\ (runPc = "running" /\ runResult.state # "pending") => runResult' = runResult
       /\ runErrno' # "none" => runResult' = onError(runPath', runErrno')]_vars

\* the process closed with a successful exit code and decodable output after
\* an 'error' event, and the call stays rejected
C37_Witness ==
    /\ runPc = "closed" /\ runErrno = "EAGAIN" /\ IsCode(closeCode, 0)
    /\ Len(stdoutBuf) > 0 /\ procOut = <<>>
    /\ runResult = SpawnError("EAGAIN")

\* the hover request h begins a request for a URI that g is still fetching
BeginsDuringFetch(g, h) ==
    /\ g # h
    /\ hover[g].pc = "fetching"
    /\ hover[h].pc = "idle"
    /\ hover'[h].pc # "idle"
    /\ hover'[h].uri = hover[g].uri

\* C38: a guidance request for a rule URI that begins while the fetch of an
\* earlier request for the same URI is still under way issues no fetch of its
\* own, and two requests that each fetched the page of one URI return the
\* same body.
C38_OverlappingRequestsShareFetch ==
    [][/\ \A g, h \in Hovers : BeginsDuringFetch(g, h) => fetches' = fetches
       /\ \A g, h \in Hovers :
             (/\ hover'[g].pc = "done" /\ hover'[h].pc = "done"
              /\ hover'[g].uri = hover'[h].uri
              /\ hover'[g].source = "page" /\ hover'[h].source = "page")
             => hover'[g].guidance = hover'[h].guidance]_vars

\* this step is a change event on a document other than d
ChangeOnOtherThan(d) ==
    /\ changes'[d] = changes[d]
    /\ \E b \in Docs \ {d} : changes'[b] # changes[b]

\* the change event j of document a ends a burst and a change event on
\* another document came within a second after it
FollowedByOther(a, j) ==
    /\ IsLastOfBurst(changes[a], j)
    /\ \E b \in Docs \ {a} : \E k \in 1..Len(changes[b]) :
          /\ changes[b][k] >= changes[a][j]
          /\ changes[b][k] < changes[a][j] + DebounceTicks

BothLinted ==
    \A a \in Docs : \A j \in 1..Len(changes[a]) :
       (FollowedByOther(a, j) /\ typeNow > changes[a][j] + DebounceTicks)
       => LintsAt(a, changes[a][j] + DebounceTicks) >= 1

\* C39: a change event on a document never cancels the pending on-type
\* timer of another document, and after a change to one document and then,
\* within a second, to another, the first document is linted when its second
\* has passed, as the other is.
C39_OtherDocumentKeepsTimer ==
    [][/\ \A t \in armed : ChangeOnOtherThan(t.doc) => t \in armed'
       /\ BothLinted']_vars

====
